---- MODULE Spec2Model ----
(***************************************************************************)
(* Rate-limiter service of scalable-notifications-service: the three band  *)
(* readers and their staging buffers, the priority processor loop, the     *)
(* Redis sliding-window rate limiter, the preference lookup and channel    *)
(* resolution, and the delivery producer.                                  *)
(***************************************************************************)
EXTENDS Integers, Sequences, FiniteSets, TLC

(***************************************************************************)
(* Bounds of the model.  The configured values (window 3600 s, limits      *)
(* 100/50/20, the "like" ceiling 20, buffer capacities 1000/500/100) are   *)
(* scaled down so that every threshold is reached inside the bounds.       *)
(***************************************************************************)
WindowSeconds == 2
LimitHigh == 2
LimitMedium == 1
LimitLow == 1
LikeLimit == 1
MaxTime == 4
MaxAdmitted == 3
MaxRecords == 2
CapHigh == 2
CapMedium == 1
CapLow == 1
MaxMessages == 3
MaxTagged == 2
MaxSerial == 3
MaxRaceChecks == 3
MaxOffsets == 3
MaxInbound == 3
PrioMaxTime == 1

\* models.PriorityHigh / PriorityMedium / PriorityLow
PriorityHigh == "high"
PriorityMedium == "medium"
PriorityLow == "low"
Priorities == {PriorityHigh, PriorityMedium, PriorityLow}

\* models.ChannelInApp
ChannelInApp == "in-app"

\* Strings that are formatted into keys are sequences of ':'-separated tokens.
Users == {<<"u1">>, <<"u2">>}
EventTypes == {<<"like">>, <<"security_alert">>}

\* A key that carries no expiry (Redis TTL -1).
NoExpiry == -1

VARIABLES
  now,         \* time.Now().Unix()
  redis,       \* the counter store: sorted sets and key expiries
  db,          \* the preference store: users, channel rows, event rows
  delivered,   \* the delivery topic: the messages published, in order
  rl,          \* history: the last IsRateLimited call, its reads and result, or
               \* the keys the last clock step made expire
  admitted,    \* history: per user and second, the number of records admitted
  storeFailed, \* history: some counter-store call has failed
  resolved,    \* history: the last two channel resolutions
  pm,          \* history: the last ProcessMessage call and its outcome
  nextId,      \* history: number of records handed to ProcessMessage so far
  chk,         \* per service instance: the admission check it is inside
  consumed,    \* per band: number of messages the reader took from its partition
  marked,      \* per band: the offset up to which messages are marked consumed
  lastFetch,   \* history: per band, the kind of the last message taken, and
               \* whether it found the buffer full
  skipped,     \* history: per band, the number of payloads skipped as unparseable
  buf,         \* per band: the staging buffer (a buffered Go channel)
  rpc,         \* per band: where the reader goroutine stands
  rmsg,        \* per band: the record the reader is sending into the buffer
  ready,       \* per band: the ready channel has been closed by Setup
  cancelled,   \* the context passed to Start has been cancelled
  spc,         \* where the priority processor goroutine stands
  held,        \* the medium or low record dequeued by the outer select
  runq,        \* the records the current select branch still passes to the handler
  decision,    \* history: the last outer select, what was available and taken
  precheck,    \* history: the last inner select around a low record
  handled,     \* history: the ids of the records passed to the handler
  dequeued,    \* history: the ids of the records received from the buffers
  inTag,       \* history: per band, the priority tag of the last record payload
  inflight,    \* the ids of the records whose handler call has not returned
  returned,    \* Start has returned
  boot,        \* NewPriorityConsumer: the consumer groups and the result
  prio         \* the prioritizer service: inbound offsets, its three topics

pipeVars == <<now, redis, db, delivered, rl, admitted, storeFailed, resolved, pm, nextId, chk>>
schedVars == <<consumed, marked, lastFetch, skipped, buf, rpc, rmsg, ready, cancelled, spc, held,
               runq, decision, precheck, handled, dequeued, inTag, inflight,
               returned, boot, prio>>
vars == <<pipeVars, schedVars>>

----------------------------------------------------------------------------
(* The counter store (Redis sorted sets).                                  *)

\* fmt.Sprintf("rate:user:%s", UserID)
userKey(u) == <<"rate", "user">> \o u

\* fmt.Sprintf("rate:user:%s:event:%s", UserID, EventType)
eventTypeKey(u, e) == <<"rate", "user">> \o u \o <<"event">> \o e

Keys == {userKey(u) : u \in Users} \cup
        {eventTypeKey(u, e) : u \in Users, e \in EventTypes}

\* A sorted set is a set of [member, score] with one entry per member.
EmptyRedis == [zset |-> [k \in Keys |-> {}], expireAt |-> [k \in Keys |-> NoExpiry]]

\* A key whose sorted set became empty is deleted, together with its expiry.
DropIfEmpty(r, key) ==
  IF r.zset[key] = {} THEN [r EXCEPT !.expireAt[key] = NoExpiry] ELSE r

\* ZREMRANGEBYSCORE key lo hi (both ends inclusive)
ZRemRangeByScore(r, key, lo, hi) ==
  DropIfEmpty([r EXCEPT !.zset[key] = {z \in @ : ~(lo <= z.score /\ z.score <= hi)}], key)

\* ZCARD key
ZCard(r, key) == Cardinality(r.zset[key])

\* ZADD key score member: an existing member only has its score updated.
ZAdd(r, key, score, member) ==
  [r EXCEPT !.zset[key] = {z \in @ : z.member # member}
                            \cup {[member |-> member, score |-> score]}]

\* Variant: a key that has an expiry keeps it.
Expire_KeepFirst(r, key, ttl, t) ==
  IF r.zset[key] = {} \/ r.expireAt[key] # NoExpiry THEN r ELSE [r EXCEPT !.expireAt[key] = t + ttl]

\* EXPIRE key ttl, issued at time t: no effect on a key that does not exist.
Expire(r, key, ttl, t) ==
  IF r.zset[key] = {} THEN r ELSE [r EXCEPT !.expireAt[key] = t + ttl]

\* The store deletes every key whose expiry time has been reached.
ExpireKeys(r, t) ==
  [zset |-> [k \in Keys |-> IF r.expireAt[k] # NoExpiry /\ r.expireAt[k] <= t
                            THEN {} ELSE r.zset[k]],
   expireAt |-> [k \in Keys |-> IF r.expireAt[k] # NoExpiry /\ r.expireAt[k] <= t
                                THEN NoExpiry ELSE r.expireAt[k]]]

----------------------------------------------------------------------------
(* RedisRateLimiter.                                                       *)

\* The store calls of one IsRateLimited that may fail ("none": all succeed).
\* A failed call has no effect on the store.
RateFailPoints == {"none", "cleanupUser", "cleanupEvent", "countUser", "countEvent",
                   "zaddUser", "expireUser", "zaddEvent", "expireEvent"}

\* r.limits, built by NewRedisRateLimiter from the configuration
limits == [p \in Priorities |->
             CASE p = PriorityHigh -> LimitHigh
               [] p = PriorityMedium -> LimitMedium
               [] OTHER -> LimitLow]

\* Variant: every record is held to the low limit.
getLimitForPriority_Low(priority) == IF priority \in DOMAIN limits THEN limits[PriorityLow] ELSE limits[PriorityLow]

getLimitForPriority(priority) ==
  IF priority \in DOMAIN limits THEN limits[priority] ELSE limits[PriorityLow]

\* Variant: a user is limited only above the limit.
userLimitReached_Strict(userCount, limit) == userCount > limit

\* userCount >= limit
userLimitReached(userCount, limit) == userCount >= limit

\* Variant: the cap applies to every event type.
eventCapReached_AnyEvent(n, eventTypeCount) == eventTypeCount >= LikeLimit /\ n.eventType \in EventTypes

\* eventTypeCount >= 20 && notification.EventType == "like"
eventCapReached(n, eventTypeCount) == eventTypeCount >= LikeLimit /\ n.eventType = <<"like">>

\* Variant: the purge stops short of windowStart.
cleanupOldEntries_Exclusive(r, key, windowStart) == ZRemRangeByScore(r, key, 0, windowStart - 1)

\* ZRemRangeByScore(key, "0", windowStart)
cleanupOldEntries(r, key, windowStart) == ZRemRangeByScore(r, key, 0, windowStart)

getCurrentCount(r, key) == ZCard(r, key)

\* The error of ZAdd is overwritten by the result of Expire: the call fails
\* exactly when Expire fails.
incrementCounter(r, key, timestamp, at, zaddFails, expireFails) ==
  LET r1 == IF zaddFails THEN r ELSE ZAdd(r, key, timestamp, timestamp)
      r2 == IF expireFails THEN r1 ELSE Expire(r1, key, WindowSeconds * 2, at)
  IN [redis |-> r2, err |-> expireFails]

\* The members of key's sorted set that lie inside the window ending at t.
InWindow(r, key, t) == {z \in r.zset[key] : z.score > t - WindowSeconds}

\* The result of IsRateLimited(notification) at time t on store r when the store
\* call `fail` fails: the returned (limited, err), the store afterwards, and the
\* counts it read (-1: not read).
IsRateLimited(n, t, fail, r) ==
  LET uKey == userKey(n.user)
      eKey == eventTypeKey(n.user, n.eventType)
      windowStart == t - WindowSeconds
      Ret(lim, e, rr, uc, ec) ==
        [limited |-> lim, err |-> e, redis |-> rr, userCount |-> uc, eventTypeCount |-> ec]
      r1 == cleanupOldEntries(r, uKey, windowStart)
      r2 == cleanupOldEntries(r1, eKey, windowStart)
      userCount == getCurrentCount(r2, uKey)
      eventTypeCount == getCurrentCount(r2, eKey)
      limit == getLimitForPriority(n.priority)
      i1 == incrementCounter(r2, uKey, t, t, fail = "zaddUser", fail = "expireUser")
      i2 == incrementCounter(i1.redis, eKey, t, t, fail = "zaddEvent", fail = "expireEvent")
  IN CASE fail = "cleanupUser" -> Ret(FALSE, TRUE, r, -1, -1)
       [] fail = "cleanupEvent" -> Ret(FALSE, TRUE, r1, -1, -1)
       [] fail = "countUser" -> Ret(FALSE, TRUE, r2, -1, -1)
       [] fail = "countEvent" -> Ret(FALSE, TRUE, r2, userCount, -1)
       [] OTHER ->
          IF userLimitReached(userCount, limit)
          THEN Ret(TRUE, FALSE, r2, userCount, eventTypeCount)
          ELSE IF eventCapReached(n, eventTypeCount)
               THEN Ret(TRUE, FALSE, r2, userCount, eventTypeCount)
          ELSE IF i1.err THEN Ret(FALSE, TRUE, i1.redis, userCount, eventTypeCount)
          ELSE IF i2.err THEN Ret(FALSE, TRUE, i2.redis, userCount, eventTypeCount)
          ELSE Ret(FALSE, FALSE, i2.redis, userCount, eventTypeCount)


----------------------------------------------------------------------------
(* SQLPreferencesService: the preference store and the lookup.             *)

\* Channel names that rows of the preference store may mention.
DbChannels == {"email", "in-app", "push"}

PartialFns(D, R) == UNION {[S -> R] : S \in SUBSET D}

\* Variant: the defaults enable every channel.
DefaultChannels_AllEnabled ==
  [c \in {"email", "in-app", "push", "whatsapp", "sms"} |-> TRUE]

\* The defaults GetUserPreferences starts from.
DefaultChannels ==
  ("email" :> TRUE) @@ ("in-app" :> TRUE) @@ ("push" :> FALSE) @@
  ("whatsapp" :> FALSE) @@ ("sms" :> FALSE)

DefaultPreferences(userID) ==
  [UserID |-> userID, GlobalOptIn |-> TRUE, Channels |-> DefaultChannels,
   EventTypes |-> <<>>]

\* The queries of one GetUserPreferences that may fail.
PrefFailPoints == {"queryUser", "queryChannels", "queryEvents"}

\* Variant: the opt-in flag read from the users row is not kept.
GetUserPreferences_KeepsDefaultOptIn(d, userID, fail) ==
  IF fail = "queryUser" THEN [err |-> TRUE]
  ELSE IF userID \notin DOMAIN d.users
       THEN [err |-> FALSE, prefs |-> DefaultPreferences(userID)]
  ELSE IF fail \in {"queryChannels", "queryEvents"} THEN [err |-> TRUE]
  ELSE [err |-> FALSE,
        prefs |-> [UserID |-> userID,
                   GlobalOptIn |-> TRUE,
                   Channels |-> d.channels[userID] @@ DefaultChannels,
                   EventTypes |-> d.events[userID]]]

\* d.users: users row (id -> global_opt_in); d.channels: user_channel_preferences
\* rows; d.events: user_event_preferences rows grouped by event type.
GetUserPreferences(d, userID, fail) ==
  IF fail = "queryUser" THEN [err |-> TRUE]
  ELSE IF userID \notin DOMAIN d.users
       THEN [err |-> FALSE, prefs |-> DefaultPreferences(userID)]
  ELSE IF fail \in {"queryChannels", "queryEvents"} THEN [err |-> TRUE]
  ELSE [err |-> FALSE,
        prefs |-> [UserID |-> userID,
                   GlobalOptIn |-> d.users[userID],
                   Channels |-> d.channels[userID] @@ DefaultChannels,
                   EventTypes |-> d.events[userID]]]

----------------------------------------------------------------------------
(* Processor: channel resolution, emission, ProcessMessage.                *)

Range(s) == {s[i] : i \in DOMAIN s}

\* Iterating over a Go map visits its keys in an unspecified order: every
\* ordering of the set is a possible slice.
Orderings(S) ==
  {s \in [1..Cardinality(S) -> S] : \A i, j \in DOMAIN s : i # j => s[i] # s[j]}

\* The channels enabled in a channel -> enabled map.
Enabled(m) == {c \in DOMAIN m : m[c]}

\* Variant: the resolution reads the global channel map whatever the event.
ApplicableMap_GlobalOnly(n, userPreferences) == userPreferences.Channels

\* The map the resolution reads: the event override if one exists, else the
\* global channel map.
ApplicableMap(n, userPreferences) ==
  IF n.eventType \in DOMAIN userPreferences.EventTypes
  THEN userPreferences.EventTypes[n.eventType]
  ELSE userPreferences.Channels

\* Variant: no fallback to in-app for a high record without enabled channel.
determineDeliveryChannels_NoFloor(n, userPreferences) ==
  Orderings(Enabled(IF n.eventType \in DOMAIN userPreferences.EventTypes
                    THEN userPreferences.EventTypes[n.eventType]
                    ELSE userPreferences.Channels))

\* Variant: the iteration may stop early, keeping any part of the enabled
\* channels.
determineDeliveryChannels_Partial(n, userPreferences) ==
  UNION {Orderings(S) :
           S \in SUBSET Enabled(IF n.eventType \in DOMAIN userPreferences.EventTypes
                                THEN userPreferences.EventTypes[n.eventType]
                                ELSE userPreferences.Channels)}

\* The slices determineDeliveryChannels may return.
determineDeliveryChannels(n, userPreferences) ==
  LET enabledChannels == Orderings(Enabled(ApplicableMap(n, userPreferences)))
  IN IF n.priority = PriorityHigh /\ enabledChannels = {<<>>}
     THEN {<<ChannelInApp>>}
     ELSE enabledChannels

\* Variant: the message is sent a second time.
SendMessage_Twice(topic, processed, fail) ==
  IF fail = "send" THEN [err |-> TRUE, topic |-> topic]
  ELSE [err |-> FALSE,
        topic |-> topic \o << [key |-> processed.notification.user, value |-> processed],
                               [key |-> processed.notification.user, value |-> processed] >>]

\* Variant: the message is keyed by the event type.
SendMessage_KeyedByEvent(topic, processed, fail) ==
  IF fail = "send" THEN [err |-> TRUE, topic |-> topic]
  ELSE [err |-> FALSE,
        topic |-> Append(topic, [key |-> processed.notification.eventType,
                                 value |-> processed])]

\* KafkaProducer.SendMessage: the message published, keyed by the user id.
SendMessage(topic, processed, fail) ==
  IF fail = "send" THEN [err |-> TRUE, topic |-> topic]
  ELSE [err |-> FALSE,
        topic |-> Append(topic, [key |-> processed.notification.user,
                                 value |-> processed])]

\* Variant: an empty channel list is published like any other.
NothingToDeliver_Never(channels) == Len(channels) < 0

\* if len(channels) == 0 { ...; return nil }
NothingToDeliver(channels) == Len(channels) = 0

\* Variant: the markers of an admitted record that is not delivered are
\* withdrawn.
StoreAfter_Rollback(rate, r, result) ==
  IF result \in {"sent", "rate_limited", "rate_error"} THEN rate.redis ELSE r

\* The counter store when ProcessMessage returns `result`: the one the
\* admission check left, no later step of ProcessMessage calls the limiter.
StoreAfter(rate, r, result) == rate.redis

PipelineFailPoints == RateFailPoints \cup PrefFailPoints \cup {"send"}

\* The outcomes ProcessMessage(notification) may have at time t when the call
\* `fail` fails: the result, the counter store and the delivery topic afterwards.
ProcessMessage(n, t, fail, r, d, topic) ==
  LET rate == IsRateLimited(n, t, fail, r)
      got == GetUserPreferences(d, n.user, fail)
      Out(result, channels, tp) ==
        [result |-> result, rate |-> rate, redis |-> StoreAfter(rate, r, result),
         channels |-> channels, delivered |-> tp]
  IN IF rate.err THEN {Out("rate_error", <<>>, topic)}
     ELSE IF rate.limited THEN {Out("rate_limited", <<>>, topic)}
     ELSE IF got.err THEN {Out("prefs_error", <<>>, topic)}
     ELSE IF ~got.prefs.GlobalOptIn THEN {Out("opted_out", <<>>, topic)}
     ELSE {IF NothingToDeliver(channels) THEN Out("no_channels", channels, topic)
           ELSE LET sent == SendMessage(topic, [notification |-> n, channels |-> channels], fail)
                IN IF sent.err THEN Out("send_error", channels, topic)
                   ELSE Out("sent", channels, sent.topic)
           : channels \in determineDeliveryChannels(n, got.prefs)}

----------------------------------------------------------------------------
(* History of admissions and of pipeline calls.                            *)

Times == 0..MaxTime

RECURSIVE SumOver(_, _)
SumOver(f, S) == IF S = {} THEN 0
                 ELSE LET x == CHOOSE y \in S : TRUE IN f[x] + SumOver(f, S \ {x})

\* Number of records of user u admitted within the window (t - window, t].
AdmittedInWindow(adm, u, t) ==
  SumOver(adm[u], {s \in Times : s > t - WindowSeconds /\ s <= t})

\* Admissions that no window ending at t or later can contain are forgotten.
Forget(adm, t) ==
  [u \in Users |-> [s \in Times |-> IF s > t - WindowSeconds THEN adm[u][s] ELSE 0]]

\* The admission history after a check of n at time t returned res.
Admit(adm, n, t, res) ==
  IF ~res.limited /\ ~res.err THEN [adm EXCEPT ![n.user][t] = @ + 1] ELSE adm

NoCheck == [kind |-> "none"]

\* The record of one clock step: the keys the store deleted at time t because
\* their expiry was reached.
ExpiryRecord(r, t) ==
  [kind |-> "tick", expired |-> {k \in Keys : r.zset[k] # {} /\ ExpireKeys(r, t).zset[k] = {}}]

\* The record of one IsRateLimited call.
CheckRecord(n, t, fail, r, res, adm) ==
  [kind |-> "check", n |-> n, t |-> t, fail |-> fail,
   limited |-> res.limited, err |-> res.err,
   userCount |-> res.userCount, eventTypeCount |-> res.eventTypeCount,
   preUser |-> Cardinality(InWindow(r, userKey(n.user), t)),
   preEvent |-> Cardinality(InWindow(r, eventTypeKey(n.user, n.eventType), t)),
   postUser |-> Cardinality(InWindow(res.redis, userKey(n.user), t)),
   postEvent |-> Cardinality(InWindow(res.redis, eventTypeKey(n.user, n.eventType), t)),
   priorAdmitted |-> AdmittedInWindow(adm, n.user, t),
   boundaryUser |-> \E z \in r.zset[userKey(n.user)] : z.score = t - WindowSeconds]

NoProcess == [kind |-> "none"]

\* The record of one ProcessMessage call.
ProcessRecord(n, out, topic) ==
  [kind |-> "processed", n |-> n, result |-> out.result,
   channels |-> out.channels, lenBefore |-> Len(topic)]

NoResolution == [kind |-> "none"]

EmptyDB == [users |-> <<>>, channels |-> <<>>, events |-> <<>>]

----------------------------------------------------------------------------
(* The validator and prioritizer service: Validate, Prioritize, the        *)
(* producer's SendMessage and the handler loop of its consumer.            *)

\* NewPrioritizer: the classification table.
eventPriorities ==
  [e \in {"security_alert", "account_compromise", "payment_failed", "system_outage"}
     |-> PriorityHigh] @@
  [e \in {"message_received", "friend_request", "comment", "subscription_expiring"}
     |-> PriorityMedium] @@
  [e \in {"like", "follow", "recommendation", "newsletter"} |-> PriorityLow]

\* Variant: an event type absent from the table is made medium.
Prioritize_DefaultMedium(event) ==
  [event |-> event,
   Priority |-> IF event.EventType \in DOMAIN eventPriorities
                THEN eventPriorities[event.EventType] ELSE PriorityMedium]

\* NotificationPrioritizer.Prioritize: low unless the table has the event type.
Prioritize(event) ==
  [event |-> event,
   Priority |-> IF event.EventType \in DOMAIN eventPriorities
                THEN eventPriorities[event.EventType] ELSE PriorityLow]

\* NotificationValidator.Validate at time t: the error returned, "" for nil.
Validate(event, t) ==
  IF event.ID = "" THEN "notification ID is required"
  ELSE IF event.UserID = "" THEN "user ID is required"
  ELSE IF event.EventType = "" THEN "event type is required"
  ELSE IF event.CreatedAt > t THEN "notification timestamp is in the future"
  ELSE ""

\* NewProducer: the topic of each priority level.
topics ==
  (PriorityHigh :> "notifications.priority.high") @@
  (PriorityMedium :> "notifications.priority.medium") @@
  (PriorityLow :> "notifications.priority.low")

\* json.Marshal of a PrioritizedNotification: the fields of the embedded
\* event and the priority.
MarshalPrioritized(notification) ==
  [id |-> notification.event.ID, user_id |-> notification.event.UserID,
   event_type |-> notification.event.EventType,
   created_at |-> notification.event.CreatedAt,
   priority |-> notification.Priority]

\* KafkaProducer.SendMessage of the prioritizer service on the topics in
\* `broker`; the broker call fails when fail = "send".
SendPrioritized(broker, notification, fail) ==
  IF notification.Priority \notin DOMAIN topics
  THEN [err |-> "unknown priority level", broker |-> broker]
  ELSE IF fail = "send" THEN [err |-> "failed to send message", broker |-> broker]
  ELSE [err |-> "",
        broker |-> [broker EXCEPT ![topics[notification.Priority]] =
                      Append(@, [key |-> notification.event.UserID,
                                 value |-> MarshalPrioritized(notification)])]]

\* Processor.ProcessMessage of the prioritizer service at time t.
PrioritizerProcessMessage(event, t, fail, broker) ==
  IF Validate(event, t) # "" THEN [err |-> "validation failed", broker |-> broker]
  ELSE SendPrioritized(broker, Prioritize(event), fail)

\* The service before the first inbound message.
InitPrioritizer ==
  [consumed |-> 0, marked |-> 0, broker |-> [tp \in {topics[p] : p \in DOMAIN topics} |-> <<>>],
   last |-> [kind |-> "none"]]

----------------------------------------------------------------------------
(* Initial values.                                                         *)

Bands == <<PriorityHigh, PriorityMedium, PriorityLow>>

NoRecord == [id |-> <<>>]

\* The service instances that share the counter store.
Instances == {"a", "b"}

\* An instance that is not inside IsRateLimited.
IdleCheck == [pc |-> "idle"]

\* The pipeline before any record: empty counter store, empty delivery topic.
InitPipeline ==
  /\ now = 0
  /\ redis = EmptyRedis
  /\ delivered = <<>>
  /\ rl = NoCheck
  /\ admitted = [u \in Users |-> [t \in Times |-> 0]]
  /\ storeFailed = FALSE
  /\ resolved = <<>>
  /\ pm = NoProcess
  /\ nextId = 0
  /\ chk = [i \in Instances |-> IdleCheck]

\* The next consumer group NewPriorityConsumer creates after that of band b.
NextGroup == [b \in Priorities |->
                CASE b = PriorityHigh -> PriorityMedium
                  [] b = PriorityMedium -> PriorityLow
                  [] OTHER -> "done"]

\* Before NewPriorityConsumer: no consumer group, no consumer.
Unbuilt == [pc |-> PriorityHigh, groups |-> [b \in Priorities |-> "none"], result |-> "pending"]

\* After NewPriorityConsumer returned a consumer: the three groups are open.
Built == [pc |-> "done", groups |-> [b \in Priorities |-> "open"], result |-> "ok"]

\* The channels and goroutine positions of a consumer before Start.
InitChannels ==
  /\ consumed = [b \in Priorities |-> 0]
  /\ marked = [b \in Priorities |-> 0]
  /\ lastFetch = [b \in Priorities |-> [kind |-> "none", full |-> FALSE]]
  /\ skipped = [b \in Priorities |-> 0]
  /\ buf = [b \in Priorities |-> <<>>]
  /\ rpc = [b \in Priorities |-> "init"]
  /\ rmsg = [b \in Priorities |-> NoRecord]
  /\ ready = [b \in Priorities |-> FALSE]
  /\ cancelled = FALSE
  /\ spc = "wait"
  /\ held = NoRecord
  /\ runq = <<>>
  /\ decision = [took |-> "none"]
  /\ precheck = [took |-> "none"]
  /\ handled = {}
  /\ dequeued = {}
  /\ inTag = [b \in Priorities |-> "none"]
  /\ inflight = {}
  /\ returned = FALSE
  /\ prio = InitPrioritizer

\* The consumer as NewPriorityConsumer builds it, before Start.
InitConsumer == InitChannels /\ boot = Built

----------------------------------------------------------------------------
(* The admission controller on its own: one limiter, a clock, any sequence *)
(* of records and timestamps, no store failure.                            *)

\* The records checked: every event type and priority for one user, and a
\* second user whose counters must stay apart.
Notifications ==
  [id : {0}, user : {<<"u1">>}, eventType : EventTypes, priority : Priorities] \cup
  [id : {0}, user : {<<"u2">>}, eventType : {<<"like">>}, priority : {PriorityMedium}]

InitAdmit == InitPipeline /\ InitConsumer /\ db = EmptyDB

\* One second passes; the store drops the keys whose expiry is reached.
Tick ==
  /\ now < MaxTime
  /\ now' = now + 1
  /\ redis' = ExpireKeys(redis, now + 1)
  /\ admitted' = Forget(admitted, now + 1)
  /\ rl' = ExpiryRecord(redis, now + 1)
  /\ pm' = NoProcess
  /\ UNCHANGED <<db, delivered, storeFailed, resolved, nextId, chk, schedVars>>

\* One call of IsRateLimited.
AdmissionCheck(n, fail) ==
  /\ AdmittedInWindow(admitted, n.user, now) < MaxAdmitted
  /\ LET out == IsRateLimited(n, now, fail, redis)
     IN /\ redis' = out.redis
        /\ rl' = CheckRecord(n, now, fail, redis, out, admitted)
        /\ admitted' = Admit(admitted, n, now, out)
        /\ storeFailed' = (storeFailed \/ fail \in RateFailPoints \ {"none"})
  /\ UNCHANGED <<now, db, delivered, resolved, pm, nextId, chk, schedVars>>

NextAdmit ==
  \/ Tick
  \/ \E n \in Notifications : AdmissionCheck(n, "none")

SpecAdmit == InitAdmit /\ [][NextAdmit]_vars

\* C1: an admission check that reads a user-level count at or above the limit
\* of the record's priority reports the record rate limited and inserts no
\* marker: the in-window counts of the user and of the (user, event type)
\* subject are the same after the check as before it.
C1_RejectedAtLimit ==
  (rl.kind = "check" /\ rl.userCount >= limits[rl.n.priority])
    => /\ rl.limited /\ ~rl.err
       /\ rl.postUser = rl.preUser
       /\ rl.postEvent = rl.preEvent

\* A high-priority check that found the counter exactly at the limit.
C1_Witness ==
  /\ rl.kind = "check" /\ rl.n.priority = PriorityHigh
  /\ rl.userCount = LimitHigh /\ rl.preUser = LimitHigh
  /\ rl.limited /\ rl.postUser = LimitHigh

\* C2: with checks serialized and no store failure, a record of priority p is
\* admitted only if fewer than limit(p) records of its user were admitted in
\* the window ending now, so no window holds more admitted records of one user
\* than the high-priority limit.
C2_AdmittedWithinLimit ==
  /\ (rl.kind = "check" /\ ~rl.limited /\ ~rl.err /\ ~storeFailed)
       => rl.priorAdmitted < limits[rl.n.priority]
  /\ ~storeFailed => \A u \in Users : AdmittedInWindow(admitted, u, now) <= LimitHigh

\* C14: after a check that admits, both counters hold a marker timestamped
\* now, the in-window count of each is one more than the count the check
\* read, and each key expires two windows from now.
C14_AdmittedAddsMarker ==
  (rl.kind = "check" /\ ~rl.limited /\ ~rl.err)
    => \A key \in {userKey(rl.n.user), eventTypeKey(rl.n.user, rl.n.eventType)} :
         /\ \E z \in redis.zset[key] : z.score = rl.t
         /\ redis.expireAt[key] = rl.t + 2 * WindowSeconds
         /\ Cardinality(InWindow(redis, key, rl.t))
              = (IF key = userKey(rl.n.user) THEN rl.userCount ELSE rl.eventTypeCount) + 1

\* C26: a check that ends without a store error rejects the record exactly
\* when the number of in-window markers under the user's key, which records of
\* every priority share, is at or above the limit of the record's priority,
\* or the record is a like and the (user, like) count is at the cap.
C26_SharedCounterPriorityLimit ==
  (rl.kind = "check" /\ ~rl.err)
    => /\ rl.userCount = rl.preUser
       /\ rl.limited <=> \/ rl.preUser >= limits[rl.n.priority]
                         \/ (rl.n.eventType = <<"like">> /\ rl.preEvent >= LikeLimit)

\* A high-priority record admitted although the user's count has reached the
\* low limit.
C26_Witness ==
  /\ rl.kind = "check" /\ rl.n.priority = PriorityHigh /\ ~rl.limited /\ ~rl.err
  /\ rl.preUser >= LimitLow /\ rl.preUser < LimitHigh
  /\ rl.postUser = rl.preUser + 1

\* C27: a like is rejected whenever the (user, like) in-window count is at the
\* cap, whatever its priority and the user-level count; a record of another
\* event type is rejected only by the user-level count.
C27_LikeCap ==
  (rl.kind = "check" /\ ~rl.err)
    => /\ rl.eventTypeCount = rl.preEvent
       /\ (rl.n.eventType = <<"like">> /\ rl.preEvent >= LikeLimit) => rl.limited
       /\ rl.n.eventType # <<"like">> => (rl.limited <=> rl.preUser >= limits[rl.n.priority])

\* A high-priority like rejected by the cap with the user-level count below
\* the high limit.
C27_Witness ==
  /\ rl.kind = "check" /\ rl.n.priority = PriorityHigh /\ rl.n.eventType = <<"like">>
  /\ rl.preUser < LimitHigh /\ rl.preEvent >= LikeLimit
  /\ rl.limited /\ ~rl.err /\ rl.postEvent = rl.preEvent

----------------------------------------------------------------------------
(* Two service instances on one counter store: each runs IsRateLimited as  *)
(* the sequence of store calls it is, first the purges and the counts,     *)
(* then the decision and the insertions, and the other instance's calls    *)
(* may come in between.                                                    *)

\* The first half of IsRateLimited: now, the two purges, the two counts.
ReadCounts(n, t, r) ==
  LET r1 == cleanupOldEntries(r, userKey(n.user), t - WindowSeconds)
      r2 == cleanupOldEntries(r1, eventTypeKey(n.user, n.eventType), t - WindowSeconds)
  IN [redis |-> r2, userCount |-> getCurrentCount(r2, userKey(n.user)),
      eventTypeCount |-> getCurrentCount(r2, eventTypeKey(n.user, n.eventType))]

\* The two comparisons of IsRateLimited.
LimitedBy(n, userCount, eventTypeCount) ==
  \/ userLimitReached(userCount, getLimitForPriority(n.priority))
  \/ eventCapReached(n, eventTypeCount)

\* Variant: the counts are read again from the store at the comparison.
DecisionCounts_Fresh(c, r) ==
  [userCount |-> getCurrentCount(r, userKey(c.n.user)),
   eventTypeCount |-> getCurrentCount(r, eventTypeKey(c.n.user, c.n.eventType))]

\* The comparisons use the local variables userCount and eventTypeCount, read
\* earlier in the call, whatever the store holds by now.
DecisionCounts(c, r) == [userCount |-> c.userCount, eventTypeCount |-> c.eventTypeCount]

\* The second half of IsRateLimited: the comparisons and, for a record that is
\* not limited, the two insertions with the timestamp t taken at the start;
\* the expiry counts from the time `at` of the Expire call.
Decide(n, t, at, counts, r) ==
  IF LimitedBy(n, counts.userCount, counts.eventTypeCount)
  THEN [limited |-> TRUE, err |-> FALSE, redis |-> r]
  ELSE LET i1 == incrementCounter(r, userKey(n.user), t, at, FALSE, FALSE)
           i2 == incrementCounter(i1.redis, eventTypeKey(n.user, n.eventType), t, at,
                                  FALSE, FALSE)
       IN [limited |-> FALSE, err |-> FALSE, redis |-> i2.redis]

\* The records the two instances check, all of one user.
RaceRecords ==
  {[id |-> 0, user |-> <<"u1">>, eventType |-> <<"like">>, priority |-> PriorityMedium],
   [id |-> 0, user |-> <<"u1">>, eventType |-> <<"security_alert">>, priority |-> PriorityHigh]}

\* Instance i enters IsRateLimited for n: it takes the time, purges and counts.
RaceRead(i, n) ==
  /\ chk[i].pc \in {"idle", "done"}
  /\ nextId < MaxRaceChecks
  /\ nextId' = nextId + 1
  /\ LET rd == ReadCounts(n, now, redis)
     IN /\ redis' = rd.redis
        /\ chk' = [chk EXCEPT ![i] = [pc |-> "counted", n |-> n, t |-> now,
                                      userCount |-> rd.userCount,
                                      eventTypeCount |-> rd.eventTypeCount]]
  /\ UNCHANGED <<now, db, delivered, rl, admitted, storeFailed, resolved, pm, schedVars>>

\* Instance i goes on to the comparisons and the insertions, and returns.
RaceDecide(i) ==
  /\ chk[i].pc = "counted"
  /\ LET c == chk[i]
         out == Decide(c.n, c.t, now, DecisionCounts(c, redis), redis)
     IN /\ redis' = out.redis
        /\ admitted' = Admit(admitted, c.n, c.t, out)
        /\ chk' = [chk EXCEPT ![i] = [c EXCEPT !.pc = "done"] @@ [limited |-> out.limited]]
  /\ UNCHANGED <<now, db, delivered, rl, storeFailed, resolved, pm, nextId, schedVars>>

NextRace ==
  \/ Tick
  \/ \E i \in Instances, n \in RaceRecords : RaceRead(i, n)
  \/ \E i \in Instances : RaceDecide(i)

SpecRace == InitAdmit /\ [][NextRace]_vars

\* C22: an instance decides on the counts it read at the start of its check,
\* whatever the other instance inserted since; and the two halves of a check,
\* run with nothing in between, are IsRateLimited.  So two instances that both
\* read a count below the limit both admit.
C22_DecidesOnCountsRead ==
  /\ \A i \in Instances :
       chk[i].pc = "done" =>
         chk[i].limited = LimitedBy(chk[i].n, chk[i].userCount, chk[i].eventTypeCount)
  /\ \A n \in RaceRecords :
       LET rd == ReadCounts(n, now, redis)
           d == Decide(n, now, now, rd, rd.redis)
           whole == IsRateLimited(n, now, "none", redis)
       IN /\ d.limited = whole.limited /\ d.redis = whole.redis
          /\ rd.userCount = whole.userCount /\ rd.eventTypeCount = whole.eventTypeCount

\* Both instances read a user-level count one below the medium limit, at
\* different seconds, and both admitted: the window holds more admitted
\* records, and more markers, than the limit.
C22_Witness ==
  /\ \A i \in Instances :
       /\ chk[i].pc = "done" /\ ~chk[i].limited
       /\ chk[i].n.priority = PriorityMedium
       /\ chk[i].userCount = LimitMedium - 1
       /\ chk[i].t > now - WindowSeconds
  /\ chk["a"].t # chk["b"].t
  /\ AdmittedInWindow(admitted, <<"u1">>, now) > LimitMedium
  /\ Cardinality(InWindow(redis, userKey(<<"u1">>), now)) > LimitMedium

----------------------------------------------------------------------------
(* Channel resolution on its own: a fixed preference store, drawn from a   *)
(* bounded set, and any sequence of lookups and resolutions.               *)

\* Channel names that event override rows may mention.
OverrideChannels == {"email", "in-app"}

NonEmptyPartialFns(D, R) == {f \in PartialFns(D, R) : DOMAIN f # {}}

\* The stores drawn: user u1 has a users row, any channel rows over DbChannels
\* and possibly override rows for security_alert; user u2 has no row at all.
PreferenceStores ==
  {[users |-> (<<"u1">> :> optIn),
    channels |-> (<<"u1">> :> rows),
    events |-> (<<"u1">> :> ev)] :
     optIn \in BOOLEAN,
     rows \in PartialFns(DbChannels, BOOLEAN),
     ev \in {<<>>} \cup {(<<"security_alert">> :> o) :
                           o \in NonEmptyPartialFns(OverrideChannels, BOOLEAN)}}

Records == [id : {0}, user : Users, eventType : EventTypes, priority : Priorities]

InitResolve == InitPipeline /\ InitConsumer /\ db \in PreferenceStores

\* The record of one resolution.
Resolution(n, prefs, channels) == [n |-> n, prefs |-> prefs, channels |-> channels]

\* Steps 2 and 4 of ProcessMessage: one lookup of the user's preferences and
\* one call of determineDeliveryChannels.  The previous resolution is kept
\* while the same record is resolved again.
Resolve(n) ==
  /\ LET got == GetUserPreferences(db, n.user, "none")
     IN \E channels \in determineDeliveryChannels(n, got.prefs) :
          resolved' = IF resolved # <<>> /\ resolved[1].n = n
                      THEN <<Resolution(n, got.prefs, channels), resolved[1]>>
                      ELSE <<Resolution(n, got.prefs, channels)>>
  /\ UNCHANGED <<now, redis, db, delivered, rl, admitted, storeFailed, pm, nextId,
                 chk, schedVars>>

NextResolve == \E n \in Records : Resolve(n)

SpecResolve == InitResolve /\ [][NextResolve]_vars

\* C6: a high-priority record of an opted-in user whose applicable channel map
\* has no enabled channel resolves to exactly <<"in-app">>; a medium or low
\* record in the same situation resolves to no channel.
C6_FailsafeFloor ==
  \A i \in DOMAIN resolved :
    LET x == resolved[i]
    IN (x.prefs.GlobalOptIn /\ Enabled(ApplicableMap(x.n, x.prefs)) = {})
         => IF x.n.priority = PriorityHigh
            THEN x.channels = <<"in-app">>
            ELSE x.channels = <<>>

\* A high record resolved to the floor although the user disabled in-app, and
\* a low record resolved to nothing.
C6_Witness ==
  /\ resolved # <<>>
  /\ resolved[1].n.priority = PriorityHigh
  /\ resolved[1].prefs.GlobalOptIn
  /\ "in-app" \in DOMAIN ApplicableMap(resolved[1].n, resolved[1].prefs)
  /\ Enabled(ApplicableMap(resolved[1].n, resolved[1].prefs)) = {}
  /\ resolved[1].channels = <<"in-app">>

\* C7 as stated: with an override for the event type the resolved set is
\* exactly the channels enabled in the override, else exactly the channels
\* enabled in the global map.
C7_OverridePrecedence_Original ==
  \A i \in DOMAIN resolved :
    LET x == resolved[i]
    IN x.prefs.GlobalOptIn =>
         Range(x.channels) =
           IF x.n.eventType \in DOMAIN x.prefs.EventTypes
           THEN Enabled(x.prefs.EventTypes[x.n.eventType])
           ELSE Enabled(x.prefs.Channels)

\* C7 as amended: the same, except that a high-priority record whose
\* applicable map has no enabled channel resolves to {"in-app"}.
C7_OverridePrecedence ==
  \A i \in DOMAIN resolved :
    LET x == resolved[i]
        applicable == IF x.n.eventType \in DOMAIN x.prefs.EventTypes
                      THEN Enabled(x.prefs.EventTypes[x.n.eventType])
                      ELSE Enabled(x.prefs.Channels)
    IN x.prefs.GlobalOptIn =>
         Range(x.channels) =
           IF x.n.priority = PriorityHigh /\ applicable = {}
           THEN {"in-app"} ELSE applicable

\* An override that leaves out a channel the global map enables: the channel
\* is not delivered.
C7_Witness ==
  /\ resolved # <<>>
  /\ resolved[1].prefs.GlobalOptIn
  /\ resolved[1].n.eventType \in DOMAIN resolved[1].prefs.EventTypes
  /\ resolved[1].prefs.Channels["in-app"]
  /\ "in-app" \notin DOMAIN resolved[1].prefs.EventTypes[resolved[1].n.eventType]
  /\ Range(resolved[1].channels) = {"email"}

----------------------------------------------------------------------------
(* The per-record pipeline on its own: ProcessMessage called for any       *)
(* sequence of records, with a clock and failing store and broker calls.   *)

\* User u1 with the global map {email} plus the defaults and the override
\* security_alert -> {email, in-app}; the same user opted out; the same user
\* with every channel disabled.  User u2 has no row.
RoundTripStore ==
  [users |-> (<<"u1">> :> TRUE),
   channels |-> (<<"u1">> :> ("email" :> TRUE)),
   events |-> (<<"u1">> :> (<<"security_alert">> :> (("email" :> TRUE) @@ ("in-app" :> TRUE))))]

OptedOutStore == [RoundTripStore EXCEPT !.users = (<<"u1">> :> FALSE)]

AllDisabledStore ==
  [users |-> (<<"u1">> :> TRUE),
   channels |-> (<<"u1">> :> (("email" :> FALSE) @@ ("in-app" :> FALSE))),
   events |-> (<<"u1">> :> <<>>)]

\* The user opted out with every channel disabled.
OptedOutDisabledStore == [AllDisabledStore EXCEPT !.users = (<<"u1">> :> FALSE)]

ProcessStores == {RoundTripStore, OptedOutStore, AllDisabledStore, OptedOutDisabledStore}

\* The records processed: the round-trip record, a low record of the same
\* user, and a record of the user without a row.
ProcessInputs ==
  {[user |-> <<"u1">>, eventType |-> <<"security_alert">>, priority |-> PriorityHigh],
   [user |-> <<"u1">>, eventType |-> <<"like">>, priority |-> PriorityLow],
   [user |-> <<"u2">>, eventType |-> <<"like">>, priority |-> PriorityMedium]}

InitProcess == InitPipeline /\ InitConsumer /\ db \in ProcessStores

\* The pipeline variables after ProcessMessage(n) at the current time with the
\* failing call `fail`, for one of its possible outcomes.
Handle(n, fail) ==
  \E out \in ProcessMessage(n, now, fail, redis, db, delivered) :
    /\ redis' = out.redis
    /\ delivered' = out.delivered
    /\ rl' = CheckRecord(n, now, fail, redis, out.rate, admitted)
    /\ admitted' = Admit(admitted, n, now, out.rate)
    /\ storeFailed' = (storeFailed \/ fail \in RateFailPoints \ {"none"})
    /\ pm' = ProcessRecord(n, out, delivered)
    /\ UNCHANGED <<now, db, resolved, chk>>

\* One call of ProcessMessage for a new record.
Process(user, eventType, priority, fail) ==
  /\ nextId < MaxRecords
  /\ Handle([id |-> nextId + 1, user |-> user, eventType |-> eventType,
             priority |-> priority], fail)
  /\ nextId' = nextId + 1
  /\ UNCHANGED schedVars

\* The failing calls drawn: a count (error before any insertion), a swallowed
\* ZAdd error, an Expire error after the insertions, each query, the publish.
ProcessFailPoints == {"none", "countUser", "zaddUser", "expireEvent"}
                       \cup PrefFailPoints \cup {"send"}

NextProcess ==
  \/ (now < WindowSeconds /\ Tick)
  \/ \E n \in ProcessInputs, fail \in ProcessFailPoints :
       Process(n.user, n.eventType, n.priority, fail)

SpecProcess == InitProcess /\ [][NextProcess]_vars

\* The messages of the delivery topic that carry record id.
Published(id) == {i \in DOMAIN delivered : delivered[i].value.notification.id = id}

\* The preference matrix the lookup returns for user u when it succeeds.
PrefsOf(u) == GetUserPreferences(db, u, "none").prefs

C12_OptOutSilent ==
  /\ (pm.kind = "processed" /\ pm.n.user \in DOMAIN db.users /\ ~db.users[pm.n.user])
       => /\ Len(delivered) = pm.lenBefore
          /\ Published(pm.n.id) = {}
          /\ pm.result \notin {"sent", "send_error", "no_channels"}
  /\ \A i \in DOMAIN delivered :
       delivered[i].key \in DOMAIN db.users => db.users[delivered[i].key]

\* An admitted high security_alert of the opted-out user, whose override
\* enables email and in-app, ends without a publish.
C12_Witness ==
  /\ db = OptedOutStore
  /\ pm.kind = "processed" /\ pm.result = "opted_out"
  /\ pm.n.priority = PriorityHigh /\ pm.n.eventType = <<"security_alert">>
  /\ rl.kind = "check" /\ ~rl.limited /\ ~rl.err /\ rl.fail = "none"
  /\ Len(delivered) = pm.lenBefore

\* C13: an admitted record of a user without a users row is not failed by the
\* lookup: unless the users query itself or the publish fails, it is
\* published with exactly the channels email and in-app.
C13_UnknownUserDefaults ==
  (pm.kind = "processed" /\ pm.n.user \notin DOMAIN db.users
   /\ rl.kind = "check" /\ ~rl.limited /\ ~rl.err
   /\ rl.fail \notin {"queryUser", "send"})
    => /\ pm.result = "sent"
       /\ Range(pm.channels) = {"email", "in-app"}
       /\ Len(delivered) = pm.lenBefore + 1
       /\ delivered[Len(delivered)].value.notification = pm.n
       /\ Range(delivered[Len(delivered)].value.channels) = {"email", "in-app"}

\* The medium like of u2, who has no row, published to email and in-app.
C13_Witness ==
  /\ pm.kind = "processed" /\ pm.n.user = <<"u2">> /\ <<"u2">> \notin DOMAIN db.users
  /\ rl.kind = "check" /\ ~rl.limited /\ rl.fail = "none"
  /\ pm.result = "sent"
  /\ Range(delivered[Len(delivered)].value.channels) = {"email", "in-app"}
  /\ delivered[Len(delivered)].key = <<"u2">>

\* C33: every message of the delivery topic has a non-empty channel list, its
\* user is opted in or has no users row, and each of its channels is enabled
\* in the map applied to the record or is the in-app channel of a
\* high-priority record; the call that published it had admitted the record;
\* and a call that resolved no channel, which only happens to a medium or low
\* record, admitted the record, published nothing and returned no error.
C33_PublishedNonEmpty ==
  /\ \A i \in DOMAIN delivered :
       LET m == delivered[i].value
           prefs == PrefsOf(m.notification.user)
       IN /\ m.channels # <<>>
          /\ m.notification.user \in DOMAIN db.users => db.users[m.notification.user]
          /\ prefs.GlobalOptIn
          /\ \A c \in Range(m.channels) :
               \/ c \in Enabled(ApplicableMap(m.notification, prefs))
               \/ (c = ChannelInApp /\ m.notification.priority = PriorityHigh)
  /\ (pm.kind = "processed" /\ Len(delivered) # pm.lenBefore) =>
       /\ pm.result = "sent" /\ pm.channels # <<>>
       /\ rl.kind = "check" /\ rl.n = pm.n /\ ~rl.limited /\ ~rl.err
       /\ delivered[Len(delivered)].value = [notification |-> pm.n, channels |-> pm.channels]
  /\ (pm.kind = "processed" /\ rl.kind = "check" /\ ~rl.limited /\ ~rl.err
      /\ pm.result \notin {"prefs_error", "opted_out"}
      /\ Enabled(ApplicableMap(pm.n, PrefsOf(pm.n.user))) = {}
      /\ pm.n.priority # PriorityHigh) =>
       /\ pm.result = "no_channels" /\ pm.channels = <<>>
       /\ Len(delivered) = pm.lenBefore /\ Published(pm.n.id) = {}
  /\ (pm.kind = "processed" /\ pm.result = "no_channels") =>
       /\ pm.n.priority # PriorityHigh
       /\ rl.kind = "check" /\ ~rl.limited /\ ~rl.err

\* After a record of the user without a row was published, a low like of the
\* user whose channels are all disabled ends without a publish.
C33_Witness ==
  /\ db = AllDisabledStore
  /\ pm.kind = "processed" /\ pm.result = "no_channels"
  /\ pm.n.priority = PriorityLow /\ pm.n.user = <<"u1">>
  /\ rl.kind = "check" /\ ~rl.limited /\ ~rl.err /\ rl.fail = "none"
  /\ Len(delivered) = 1 /\ pm.lenBefore = 1
  /\ delivered[1].value.channels # <<>>

\* The failing call `fail` is reached by the ProcessMessage call recorded in
\* rl: the purges and counts always, the insertions and expiries when the
\* record is not limited, the users query when the admission check passed, the
\* other queries when the user has a row.
CallMade(fail) ==
  CASE fail \in {"cleanupUser", "cleanupEvent", "countUser", "countEvent"} -> TRUE
    [] fail \in {"zaddUser", "expireUser", "zaddEvent", "expireEvent"} -> ~rl.limited
    [] fail = "queryUser" -> ~rl.limited /\ ~rl.err
    [] fail \in {"queryChannels", "queryEvents"} ->
         ~rl.limited /\ ~rl.err /\ rl.n.user \in DOMAIN db.users
    [] OTHER -> FALSE

\* C18: a ProcessMessage call in which a counter-store or preference-store
\* call failed returns an error and publishes nothing for the record.
C18_StoreFailureDrops ==
  (pm.kind = "processed" /\ rl.kind = "check" /\ rl.n = pm.n /\ CallMade(rl.fail))
    => /\ pm.result \in {"rate_error", "prefs_error"}
       /\ Published(pm.n.id) = {}
       /\ Len(delivered) = pm.lenBefore

\* The keys of the two subjects of record n.
SubjectKeys(n) == {userKey(n.user), eventTypeKey(n.user, n.eventType)}

\* C29: the counts a check decides on are the numbers of markers newer than
\* now - window that the two subjects held before the check; after the check
\* neither subject holds a marker at or before now - window; and the check
\* removes no marker that is newer than now - window.
C29_SlidingWindow ==
  /\ [](rl.kind = "check" /\ ~rl.err =>
          /\ rl.userCount = rl.preUser /\ rl.eventTypeCount = rl.preEvent
          /\ \A key \in SubjectKeys(rl.n) :
               \A z \in redis.zset[key] : z.score > rl.t - WindowSeconds)
  /\ [][rl'.kind = "check" =>
          \A key \in SubjectKeys(rl'.n) :
            InWindow(redis, key, rl'.t) \subseteq redis'.zset[key]]_vars

\* A check that found a marker exactly at now - window and a newer one: the
\* first is gone, the second was counted and is still stored.
C29_Witness ==
  /\ rl.kind = "check" /\ rl.boundaryUser /\ rl.t = now
  /\ rl.userCount = 1 /\ rl.preUser = 1
  /\ \E z \in redis.zset[userKey(rl.n.user)] : z.score = rl.t - WindowSeconds + 1
  /\ \A z \in redis.zset[userKey(rl.n.user)] : z.score # rl.t - WindowSeconds

C37_NoRollback ==
  /\ [][(pm'.kind = "processed" /\ pm'.result \in {"prefs_error", "opted_out", "no_channels", "send_error"}) =>
          /\ redis' = IsRateLimited(pm'.n, now, rl'.fail, redis).redis
          /\ \A key \in {userKey(pm'.n.user), eventTypeKey(pm'.n.user, pm'.n.eventType)} :
               rl'.fail \notin {"zaddUser", "zaddEvent"} =>
                 \E z \in redis'.zset[key] : z.score = now]_vars
  /\ [][\A key \in Keys : \A z \in redis.zset[key] :
          z.score > now' - WindowSeconds => z \in redis'.zset[key]]_vars

\* A record of the opted-out user was admitted and not delivered; the user's
\* next record finds its marker and is rejected, nothing was ever delivered.
C37_Witness ==
  /\ db = OptedOutStore /\ delivered = <<>>
  /\ pm.kind = "processed" /\ pm.result = "rate_limited"
  /\ pm.n.user = <<"u1">> /\ pm.n.priority = PriorityLow
  /\ rl.userCount = 1 /\ rl.preUser = 1
  /\ AdmittedInWindow(admitted, <<"u1">>, now) = 1

\* C38: an admission check that returns an error leaves both counters without
\* a new marker: the in-window markers under the user's key and under the
\* (user, event type) key are those that were there before the check.
C38_ErrorLeavesNoMarker ==
  (rl.kind = "check" /\ rl.err)
    => /\ rl.postUser = rl.preUser
       /\ rl.postEvent = rl.preEvent

\* C28: for every user, the in-window markers under the user's key and under
\* each of the user's (user, event type) keys are never more than the records
\* of the user admitted within the window, store errors included.
C28_MarkersWithinAdmitted ==
  \A u \in Users :
    /\ Cardinality(InWindow(redis, userKey(u), now)) <= AdmittedInWindow(admitted, u, now)
    /\ \A e \in EventTypes :
         Cardinality(InWindow(redis, eventTypeKey(u, e), now))
           <= AdmittedInWindow(admitted, u, now)

----------------------------------------------------------------------------
(* KafkaPriorityConsumer: the three band readers, the staging buffers and  *)
(* the priority processor loop, with ProcessMessage as the handler.        *)

\* make(chan *models.PrioritizedNotification, capacity), per band
Capacity == [b \in Priorities |->
               CASE b = PriorityHigh -> CapHigh
                 [] b = PriorityMedium -> CapMedium
                 [] OTHER -> CapLow]

\* Number of messages the readers have taken from their partitions so far.
Taken == consumed[PriorityHigh] + consumed[PriorityMedium] + consumed[PriorityLow]

\* The priority tags an inbound payload may carry ("" : none).
PayloadTags == {"", PriorityHigh, PriorityLow}

\* The inbound payloads: bytes that do not parse, or a notification.
Payloads == {[ok |-> FALSE]} \cup [ok : {TRUE}, tag : PayloadTags]

\* The event type of the records of a band's topic.
BandEvent == [b \in Priorities |->
                IF b = PriorityHigh THEN <<"security_alert">> ELSE <<"like">>]

\* json.Unmarshal of the payload at `offset` of band b's partition.
Unmarshal(b, offset, payload) ==
  [id |-> <<b, offset>>, user |-> <<"u1">>, eventType |-> BandEvent[b],
   priority |-> payload.tag]

InitSched == InitPipeline /\ InitConsumer /\ db = RoundTripStore

\* Setup of band b's handler at the start of its first session: close(h.ready).
Setup(b) ==
  /\ rpc[b] = "init" /\ ~cancelled
  /\ ready' = [ready EXCEPT ![b] = TRUE]
  /\ rpc' = [rpc EXCEPT ![b] = "recv"]
  /\ UNCHANGED <<pipeVars, consumed, marked, lastFetch, skipped, buf, rmsg, cancelled, spc, held,
                 runq, decision, precheck, handled,
                 dequeued, inTag, inflight, returned, boot, prio>>

\* Variant: a send never waits.
HasRoom_Always(b) == b \in Priorities

\* A send on band b's buffered channel proceeds only while the buffer has room.
HasRoom(b) == Len(buf[b]) < Capacity[b]

\* Variant: the Unmarshal error branch without MarkMessage.
SkipPoison_NoMark(b) ==
  /\ lastFetch' = [lastFetch EXCEPT ![b] = [kind |-> "poison", full |-> FALSE]]
  /\ skipped' = [skipped EXCEPT ![b] = @ + 1]
  /\ UNCHANGED <<marked, rpc, rmsg>>

\* The Unmarshal error branch: log, MarkMessage, continue.
SkipPoison(b) ==
  /\ marked' = [marked EXCEPT ![b] = consumed[b] + 1]
  /\ lastFetch' = [lastFetch EXCEPT ![b] = [kind |-> "poison", full |-> ~HasRoom(b)]]
  /\ skipped' = [skipped EXCEPT ![b] = @ + 1]
  /\ UNCHANGED <<rpc, rmsg>>

\* Variant: the reader leaves the priority of the payload in place.
SetPriority_Keep(n, b) == IF b \in Priorities THEN n ELSE n

\* notification.Priority = models.PriorityHigh (PriorityMedium, PriorityLow)
SetPriority(n, b) == [n EXCEPT !.priority = b]

\* Variant: MarkMessage comes before the send into the buffer.
FirstStep_Mark == "mark"

\* The statement of ConsumeClaim that follows the setting of the priority: the
\* send into the buffer.
FirstStep == "send"

\* ConsumeClaim of band b takes the next message of the partition: a payload
\* that does not parse is marked and skipped, a record gets the band's
\* priority and is held for the send into the buffer.
ConsumeMessage(b, payload) ==
  /\ rpc[b] = "recv"
  /\ consumed' = [consumed EXCEPT ![b] = @ + 1]
  /\ IF ~payload.ok
     THEN SkipPoison(b)
     ELSE /\ rmsg' = [rmsg EXCEPT ![b] = SetPriority(Unmarshal(b, consumed[b], payload), b)]
          /\ rpc' = [rpc EXCEPT ![b] = FirstStep]
          /\ lastFetch' = [lastFetch EXCEPT ![b] = [kind |-> "record", full |-> ~HasRoom(b)]]
          /\ UNCHANGED <<marked, skipped>>
  /\ UNCHANGED <<pipeVars, buf, ready, cancelled, spc, held, runq, decision, precheck,
                 handled, dequeued, inflight, returned, boot, prio>>

\* The reader of band b takes one more message, while the partition has one.
ReaderFetch(b, payload) ==
  /\ Taken < MaxMessages
  /\ ConsumeMessage(b, payload)
  /\ UNCHANGED inTag

\* Variant: the newest record is received first.
Enqueue_Front(q, m) == <<m>> \o q

\* A buffered Go channel is a FIFO queue: a send adds at the back.
Enqueue(q, m) == Append(q, m)

\* h.messages <- &notification, then MarkMessage: possible only while the
\* buffer has room.
ReaderSend(b) ==
  /\ rpc[b] = "send" /\ HasRoom(b)
  /\ buf' = [buf EXCEPT ![b] = Enqueue(@, rmsg[b])]
  /\ marked' = [marked EXCEPT ![b] = consumed[b]]
  /\ rmsg' = [rmsg EXCEPT ![b] = NoRecord]
  /\ rpc' = [rpc EXCEPT ![b] = "recv"]
  /\ UNCHANGED <<pipeVars, consumed, lastFetch, skipped, ready, cancelled, spc, held, runq,
                 decision, precheck, handled,
                 dequeued, inTag, inflight, returned, boot, prio>>

\* After cancellation the session ends and the reader goroutine returns,
\* unless it is inside the send.
ReaderExit(b) ==
  /\ cancelled /\ rpc[b] \in {"init", "recv"}
  /\ rpc' = [rpc EXCEPT ![b] = "done"]
  /\ UNCHANGED <<pipeVars, consumed, marked, lastFetch, skipped, buf, rmsg, ready, cancelled, spc,
                 held, runq, decision, precheck, handled,
                 dequeued, inTag, inflight, returned, boot, prio>>

\* The context passed to Start is cancelled.
Cancel ==
  /\ ~cancelled
  /\ cancelled' = TRUE
  /\ UNCHANGED <<pipeVars, consumed, marked, lastFetch, skipped, buf, rpc, rmsg, ready, spc, held,
                 runq, decision, precheck, handled,
                 dequeued, inTag, inflight, returned, boot, prio>>

\* Start has received from the three ready channels and starts the processor.
\* Variant: one closed ready channel is enough.
AllReady_Any == \E b \in Priorities : ready[b]

\* <-c.readyHigh; <-c.readyMedium; <-c.readyLow: the three receives have all
\* returned, each of them once its channel has been closed by Setup.
AllReady == \A b \in Priorities : ready[b]

SchedStart ==
  /\ spc = "wait" /\ AllReady
  /\ spc' = "select"
  /\ UNCHANGED <<pipeVars, consumed, marked, lastFetch, skipped, buf, rpc, rmsg, ready, cancelled,
                 held, runq, decision, precheck, handled,
                 dequeued, inTag, inflight, returned, boot, prio>>

\* What the outer select found ready and which case it ran.
Decision(took) ==
  [took |-> took, highAvail |-> buf[PriorityHigh] # <<>>,
   mediumAvail |-> buf[PriorityMedium] # <<>>, lowAvail |-> buf[PriorityLow] # <<>>]

\* The outer select: Go runs one of the ready cases, chosen at random.
\* case <-consumerCtx.Done()
SelectDone ==
  /\ spc = "select" /\ cancelled
  /\ spc' = "done"
  /\ UNCHANGED <<pipeVars, consumed, marked, lastFetch, skipped, buf, rpc, rmsg, ready, cancelled,
                 held, runq, decision, precheck, handled,
                 dequeued, inTag, inflight, returned, boot, prio>>

\* Variant: the first case receives from the low buffer.
SelectHigh_FromLow ==
  /\ spc = "select" /\ buf[PriorityLow] # <<>>
  /\ runq' = <<Head(buf[PriorityLow])>>
  /\ buf' = [buf EXCEPT ![PriorityLow] = Tail(@)]
  /\ decision' = [took |-> PriorityHigh, highAvail |-> buf[PriorityHigh] # <<>>,
                  mediumAvail |-> buf[PriorityMedium] # <<>>,
                  lowAvail |-> buf[PriorityLow] # <<>>]
  /\ dequeued' = dequeued \cup {Head(buf[PriorityLow]).id}
  /\ spc' = "run"
  /\ UNCHANGED <<pipeVars, consumed, marked, lastFetch, skipped, rpc, rmsg, ready, cancelled, held,
                 precheck, handled, inTag, inflight, returned, boot, prio>>

\* case msg := <-c.highPriorityMessages
SelectHigh ==
  /\ spc = "select" /\ buf[PriorityHigh] # <<>>
  /\ runq' = <<Head(buf[PriorityHigh])>>
  /\ buf' = [buf EXCEPT ![PriorityHigh] = Tail(@)]
  /\ decision' = Decision(PriorityHigh)
  /\ dequeued' = dequeued \cup {Head(buf[PriorityHigh]).id}
  /\ spc' = "run"
  /\ UNCHANGED <<pipeVars, consumed, marked, lastFetch, skipped, rpc, rmsg, ready, cancelled, held,
                 precheck, handled, inTag,
                 inflight, returned, boot, prio>>

\* case msg := <-c.mediumPriorityMessages
SelectMedium ==
  /\ spc = "select" /\ buf[PriorityMedium] # <<>>
  /\ held' = Head(buf[PriorityMedium])
  /\ buf' = [buf EXCEPT ![PriorityMedium] = Tail(@)]
  /\ decision' = Decision(PriorityMedium)
  /\ dequeued' = dequeued \cup {Head(buf[PriorityMedium]).id}
  /\ spc' = "checkMedium"
  /\ UNCHANGED <<pipeVars, consumed, marked, lastFetch, skipped, rpc, rmsg, ready, cancelled, runq,
                 precheck, handled, inTag,
                 inflight, returned, boot, prio>>

\* case msg := <-c.lowPriorityMessages
SelectLow ==
  /\ spc = "select" /\ buf[PriorityLow] # <<>>
  /\ held' = Head(buf[PriorityLow])
  /\ buf' = [buf EXCEPT ![PriorityLow] = Tail(@)]
  /\ decision' = Decision(PriorityLow)
  /\ dequeued' = dequeued \cup {Head(buf[PriorityLow]).id}
  /\ spc' = "checkLow"
  /\ UNCHANGED <<pipeVars, consumed, marked, lastFetch, skipped, rpc, rmsg, ready, cancelled, runq,
                 precheck, handled, inTag,
                 inflight, returned, boot, prio>>

\* Variant: the default case may run although another case is ready.
SelectWithDefault_Always(cases) == {c \in cases : buf[c] # <<>>} \cup {"default"}

\* A select with a default case runs one of the cases that are ready, and the
\* default case only when none is.
SelectWithDefault(cases) ==
  IF \E c \in cases : buf[c] # <<>> THEN {c \in cases : buf[c] # <<>>} ELSE {"default"}

\* Variant: the record dequeued by the outer select is handled first.
BranchOrder_HeldFirst(first, second) == <<second, first>>

\* The two messageHandler calls of an inner case, in the order of the code:
\* the record just received, then the record dequeued by the outer select.
BranchOrder(first, second) == <<first, second>>

\* The inner select around a medium record: a high record that is ready is
\* received and handled first, else (default) the medium record is handled.
CheckMedium ==
  /\ spc = "checkMedium"
  /\ \E took \in SelectWithDefault({PriorityHigh}) :
       IF took = "default"
       THEN /\ runq' = <<held>>
            /\ UNCHANGED <<buf, dequeued>>
       ELSE /\ runq' = BranchOrder(Head(buf[took]), held)
            /\ buf' = [buf EXCEPT ![took] = Tail(@)]
            /\ dequeued' = dequeued \cup {Head(buf[took]).id}
  /\ held' = NoRecord
  /\ spc' = "run"
  /\ UNCHANGED <<pipeVars, consumed, marked, lastFetch, skipped, rpc, rmsg, ready, cancelled,
                 decision, precheck, handled, inTag,
                 inflight, returned, boot, prio>>

\* What the inner select around the low record `held` found and took.
Precheck(took) ==
  [took |-> took, low |-> held.id, highAvail |-> buf[PriorityHigh] # <<>>,
   mediumAvail |-> buf[PriorityMedium] # <<>>,
   highHead |-> IF buf[PriorityHigh] # <<>> THEN Head(buf[PriorityHigh]).id ELSE <<>>]

\* The inner select around a low record: one of the ready cases among high
\* and medium, chosen at random, else default.
CheckLow(took) ==
  /\ spc = "checkLow"
  /\ took \in SelectWithDefault({PriorityHigh, PriorityMedium})
  /\ IF took = "default"
     THEN /\ runq' = <<held>>
          /\ UNCHANGED <<buf, dequeued>>
     ELSE /\ runq' = BranchOrder(Head(buf[took]), held)
          /\ buf' = [buf EXCEPT ![took] = Tail(@)]
          /\ dequeued' = dequeued \cup {Head(buf[took]).id}
  /\ precheck' = Precheck(took)
  /\ held' = NoRecord
  /\ spc' = "run"
  /\ UNCHANGED <<pipeVars, consumed, marked, lastFetch, skipped, rpc, rmsg, ready, cancelled,
                 decision, handled, inTag,
                 inflight, returned, boot, prio>>

\* The failing calls drawn while the consumer runs.
SchedFailPoints == {"none", "send"}

\* Variant: a record whose handler returned an error is passed again.
AfterHandler_Retry(q, result) ==
  IF result \in {"rate_error", "prefs_error", "send_error"} THEN q ELSE Tail(q)

\* if err := messageHandler(msg); err != nil { log.Printf(...) }: whatever the
\* handler returned, the branch goes on with the records after this one.
AfterHandler(q, result) == Tail(q)

\* Variant: the processor goroutine returns when the handler reports an error.
NextIteration_StopOnError(result) ==
  IF result \in {"rate_error", "prefs_error", "send_error"} THEN "done" ELSE "select"

\* The handler's error is only logged: after the branch and the sleep the
\* for loop comes back to the outer select.
NextIteration(result) == IF result = "" THEN "select" ELSE "select"

\* messageHandler(msg) for the next record of the branch: ProcessMessage; its
\* error is logged, then the branch goes on and the loop returns to the select.
HandlerReturn(fail) ==
  /\ Handle(Head(runq), fail)
  /\ handled' = handled \cup {Head(runq).id}
  /\ runq' = AfterHandler(runq, pm'.result)
  /\ IF runq' = <<>>
     THEN /\ spc' = NextIteration(pm'.result)
          /\ decision' = [took |-> "none"]
          /\ precheck' = [took |-> "none"]
     ELSE /\ spc' = "run"
          /\ UNCHANGED <<decision, precheck>>
  /\ UNCHANGED <<nextId, consumed, marked, lastFetch, skipped, buf, rpc, rmsg, ready,
                 cancelled, held,
                 dequeued, inTag, returned, boot, prio>>

\* The processor passes the next record of the branch to the handler; the call
\* and its return are one step.
Run(fail) ==
  /\ spc = "run"
  /\ HandlerReturn(fail)
  /\ UNCHANGED inflight

\* Variant: Start returns on cancellation without waiting for the workers.
WaitGroupDone_NoWait == cancelled

\* wg.Wait(): the three consumer goroutines and the processor have returned.
WaitGroupDone == spc = "done" /\ \A b \in Priorities : rpc[b] = "done"

\* Start, after starting the processor: <-ctx.Done(), wg.Wait(), return nil.
StartReturn ==
  /\ ~returned /\ spc # "wait"
  /\ cancelled
  /\ WaitGroupDone
  /\ returned' = TRUE
  /\ UNCHANGED <<pipeVars, consumed, marked, lastFetch, skipped, buf, rpc, rmsg, ready,
                 cancelled, spc, held, runq, decision, precheck, handled, dequeued, inTag,
                 inflight, boot, prio>>

Next ==
  \/ \E b \in Priorities : Setup(b)
  \/ \E b \in Priorities, payload \in Payloads : ReaderFetch(b, payload)
  \/ \E b \in Priorities : ReaderSend(b)
  \/ \E b \in Priorities : ReaderExit(b)
  \/ Cancel
  \/ SchedStart
  \/ SelectDone
  \/ SelectHigh
  \/ SelectMedium
  \/ SelectLow
  \/ CheckMedium
  \/ \E took \in {PriorityHigh, PriorityMedium, "default"} : CheckLow(took)
  \/ \E fail \in SchedFailPoints : Run(fail)
  \/ StartReturn

Spec == InitSched /\ [][Next]_vars

----------------------------------------------------------------------------
(* The same consumer over a shorter input, remembering for each band the   *)
(* priority tag of the last record payload its reader took.                *)

TaggedFetch(b, payload) ==
  /\ Taken < MaxTagged
  /\ ConsumeMessage(b, payload)
  /\ inTag' = [inTag EXCEPT ![b] = IF payload.ok THEN payload.tag ELSE @]

NextTagged ==
  \/ \E b \in Priorities : Setup(b)
  \/ \E b \in Priorities, payload \in Payloads : TaggedFetch(b, payload)
  \/ \E b \in Priorities : ReaderSend(b)
  \/ \E b \in Priorities : ReaderExit(b)
  \/ Cancel
  \/ SchedStart
  \/ SelectDone
  \/ SelectHigh
  \/ SelectMedium
  \/ SelectLow
  \/ CheckMedium
  \/ \E took \in {PriorityHigh, PriorityMedium, "default"} : CheckLow(took)
  \/ \E fail \in SchedFailPoints : Run(fail)
  \/ StartReturn

SpecTagged == InitSched /\ [][NextTagged]_vars

----------------------------------------------------------------------------
(* The same consumer with the handler call in two steps, the call and its  *)
(* return, so that the readers run while a record is inside the pipeline.  *)

SerialFetch(b, payload) ==
  /\ Taken < MaxSerial
  /\ ConsumeMessage(b, payload)
  /\ UNCHANGED <<inTag, inflight>>

\* Variant: go messageHandler(msg), the loop goes on without the result.
CallHandler_Go == "run"

\* messageHandler(msg) is a plain call: the processor goroutine is inside the
\* handler until it returns.
CallHandler == "handling"

\* The processor calls the handler for the next record of the branch.
BeginHandler ==
  /\ spc = "run"
  /\ inflight' = inflight \cup {Head(runq).id}
  /\ spc' = CallHandler
  /\ UNCHANGED <<pipeVars, consumed, marked, lastFetch, skipped, buf, rpc, rmsg, ready,
                 cancelled, held, runq, decision, precheck, handled, dequeued, inTag,
                 returned, boot, prio>>

\* The handler returns, with or without an error.
EndHandler(fail) ==
  /\ spc = "handling"
  /\ HandlerReturn(fail)
  /\ inflight' = inflight \ {Head(runq).id}

NextSerial ==
  \/ \E b \in Priorities : Setup(b)
  \/ \E b \in Priorities, payload \in Payloads : SerialFetch(b, payload)
  \/ \E b \in Priorities : ReaderSend(b)
  \/ \E b \in Priorities : ReaderExit(b)
  \/ Cancel
  \/ SchedStart
  \/ SelectDone
  \/ SelectHigh
  \/ SelectMedium
  \/ SelectLow
  \/ CheckMedium
  \/ \E took \in {PriorityHigh, PriorityMedium, "default"} : CheckLow(took)
  \/ BeginHandler
  \/ \E fail \in SchedFailPoints : EndHandler(fail)
  \/ StartReturn

SpecSerial == InitSched /\ [][NextSerial]_vars

----------------------------------------------------------------------------
(* The service from NewPriorityConsumer on: the three consumer groups are  *)
(* created in turn, each creation may fail, and main starts the consumer   *)
(* only when the constructor returned one.                                 *)

InitBoot == InitPipeline /\ InitChannels /\ boot = Unbuilt /\ db = RoundTripStore

\* Variant: the error return leaves the established groups open.
CloseEstablished_Leak(groups) == [b \in Priorities |-> groups[b]]

\* highConsumerGroup.Close(), mediumConsumerGroup.Close() on the error paths:
\* every group created so far is closed.
CloseEstablished(groups) ==
  [b \in Priorities |-> IF groups[b] = "open" THEN "closed" ELSE groups[b]]

\* sarama.NewConsumerGroup for band b, succeeding or not.
NewConsumerGroup(b, ok) ==
  /\ boot.pc = b
  /\ boot' = IF ok
             THEN [pc |-> NextGroup[b], groups |-> [boot.groups EXCEPT ![b] = "open"],
                   result |-> IF NextGroup[b] = "done" THEN "ok" ELSE "pending"]
             ELSE [pc |-> "done", groups |-> CloseEstablished(boot.groups),
                   result |-> "error"]
  /\ UNCHANGED <<pipeVars, consumed, marked, lastFetch, skipped, buf, rpc, rmsg, ready,
                 cancelled, spc, held, runq, decision, precheck, handled, dequeued, inTag,
                 inflight, returned, prio>>

\* main: log.Fatalf on the constructor's error, else consumer.Start.
Started == boot.result = "ok"

NextBoot ==
  \/ \E b \in Priorities, ok \in BOOLEAN : NewConsumerGroup(b, ok)
  \/ (Started /\ NextTagged)

SpecBoot == InitBoot /\ [][NextBoot]_vars

----------------------------------------------------------------------------
(* The same consumer with the reader's send in two steps, the send into    *)
(* the buffer and MarkMessage, so that the processor may dequeue a record  *)
(* before its offset is marked.                                            *)

\* The payloads drawn here: bytes that do not parse, or an untagged record.
MarkPayloads == {[ok |-> FALSE], [ok |-> TRUE, tag |-> ""]}

\* The reader of band b takes one more message, while the partition has one.
MarkFetch(b, payload) ==
  /\ Taken < MaxTagged
  /\ ConsumeMessage(b, payload)
  /\ UNCHANGED inTag

\* h.messages <- &notification: possible only while the buffer has room.
ReaderEnqueue(b) ==
  /\ rpc[b] = "send" /\ HasRoom(b)
  /\ buf' = [buf EXCEPT ![b] = Enqueue(@, rmsg[b])]
  /\ rmsg' = [rmsg EXCEPT ![b] = NoRecord]
  /\ rpc' = [rpc EXCEPT ![b] = "mark"]
  /\ UNCHANGED <<pipeVars, consumed, marked, lastFetch, skipped, ready, cancelled, spc, held,
                 runq, decision, precheck, handled, dequeued, inTag, inflight, returned,
                 boot, prio>>

\* session.MarkMessage(message, "") after the send.
ReaderMark(b) ==
  /\ rpc[b] = "mark"
  /\ marked' = [marked EXCEPT ![b] = consumed[b]]
  /\ rpc' = [rpc EXCEPT ![b] = "recv"]
  /\ UNCHANGED <<pipeVars, consumed, lastFetch, skipped, buf, rmsg, ready, cancelled, spc,
                 held, runq, decision, precheck, handled, dequeued, inTag, inflight,
                 returned, boot, prio>>

NextMark ==
  \/ \E b \in Priorities : Setup(b)
  \/ \E b \in Priorities, payload \in MarkPayloads : MarkFetch(b, payload)
  \/ \E b \in Priorities : ReaderEnqueue(b)
  \/ \E b \in Priorities : ReaderMark(b)
  \/ \E b \in Priorities : ReaderExit(b)
  \/ Cancel
  \/ SchedStart
  \/ SelectDone
  \/ SelectHigh
  \/ SelectMedium
  \/ SelectLow
  \/ CheckMedium
  \/ \E took \in {PriorityHigh, PriorityMedium, "default"} : CheckLow(took)
  \/ Run("none")
  \/ StartReturn

SpecMark == InitSched /\ [][NextMark]_vars

----------------------------------------------------------------------------
(* The consumer under sustained saturation of the high band, on one of the *)
(* schedules the Go runtime allows: the high topic never runs out, the     *)
(* processor reaches its select only after the high reader has staged a    *)
(* record, and the random choice among the ready cases falls on the high   *)
(* case every time.  Cancellation is never signalled.  The counter store   *)
(* fails throughout, so every handler call returns an error and the        *)
(* pipeline state does not grow with the number of records handled.        *)

\* The reader of band b takes the next record of its partition.  The high
\* partition is endless, its offsets are counted modulo MaxOffsets; the medium
\* and the low partition hold one record each.
StarveFetch(b) ==
  /\ rpc[b] = "recv"
  /\ b # PriorityHigh => consumed[b] = 0
  /\ consumed' = [consumed EXCEPT ![b] = IF b = PriorityHigh THEN (@ + 1) % MaxOffsets
                                          ELSE @ + 1]
  /\ rmsg' = [rmsg EXCEPT ![b] =
                SetPriority(Unmarshal(b, consumed[b], [ok |-> TRUE, tag |-> ""]), b)]
  /\ rpc' = [rpc EXCEPT ![b] = FirstStep]
  /\ lastFetch' = [lastFetch EXCEPT ![b] = [kind |-> "record", full |-> ~HasRoom(b)]]
  /\ UNCHANGED <<pipeVars, marked, skipped, buf, ready, cancelled, spc, held, runq, decision,
                 precheck, handled, dequeued, inTag, inflight, returned, boot, prio>>

\* The outer select at a moment when a high record is staged, the choice
\* falling on the high case.
StarveSelect == buf[PriorityHigh] # <<>> /\ SelectHigh

NextStarve ==
  \/ \E b \in Priorities : Setup(b)
  \/ \E b \in Priorities : StarveFetch(b)
  \/ \E b \in Priorities : ReaderSend(b)
  \/ SchedStart
  \/ StarveSelect
  \/ Run("countUser")

\* The steps of the medium and of the low reader.
LowerReaders ==
  \E b \in {PriorityMedium, PriorityLow} : Setup(b) \/ StarveFetch(b) \/ ReaderSend(b)

\* The goroutines keep running: the consumer as a whole does not stop while
\* a step is possible, and the medium and low readers are not held back.
StarveFairness == WF_vars(NextStarve) /\ WF_vars(LowerReaders)

SpecStarve == InitSched /\ [][NextStarve]_vars /\ StarveFairness

----------------------------------------------------------------------------
(* The consumer when cancellation is never signalled, with the goroutines  *)
(* kept running: the processor takes a step whenever it can, and a reader  *)
(* that holds a record sends it once the buffer has room.  The partitions  *)
(* are finite, so the readers stop enqueuing at some point.                *)

\* The steps of the priority processor goroutine.
ProcessorStep ==
  \/ SchedStart
  \/ SelectHigh
  \/ SelectMedium
  \/ SelectLow
  \/ CheckMedium
  \/ \E took \in {PriorityHigh, PriorityMedium, "default"} : CheckLow(took)
  \/ \E fail \in SchedFailPoints : Run(fail)

NextDrain ==
  \/ \E b \in Priorities : Setup(b)
  \/ \E b \in Priorities, payload \in MarkPayloads : MarkFetch(b, payload)
  \/ \E b \in Priorities : ReaderSend(b)
  \/ ProcessorStep

DrainFairness ==
  /\ WF_vars(ProcessorStep)
  /\ \A b \in Priorities : WF_vars(ReaderSend(b))

SpecDrain == InitSched /\ [][NextDrain]_vars /\ DrainFairness

----------------------------------------------------------------------------
(* Properties of the consumer.                                             *)

\* C3: backpressure.  On every band the staging buffer never holds more than
\* its capacity; the reader's send is possible exactly while the buffer has
\* room, so a reader at a full buffer waits for a dequeue; and a record a
\* reader holds stays with it unchanged until it is appended to the band's
\* buffer: it is never dropped.
C3_Backpressure ==
  /\ [](\A b \in Priorities :
          /\ Len(buf[b]) <= Capacity[b]
          /\ rpc[b] = "send" => ((ENABLED ReaderSend(b)) <=> Len(buf[b]) < Capacity[b]))
  /\ [][\A b \in Priorities :
          rpc[b] = "send" =>
            \/ rpc'[b] = "send" /\ rmsg'[b] = rmsg[b]
            \/ rpc'[b] = "recv" /\ buf'[b] = Append(buf[b], rmsg[b])]_vars

\* A high record whose reader found the buffer full is the last entry of the
\* full high buffer, after the scheduler has dequeued the oldest entry.
C3_Witness ==
  /\ lastFetch[PriorityHigh].kind = "record" /\ lastFetch[PriorityHigh].full
  /\ rpc[PriorityHigh] = "recv"
  /\ Len(buf[PriorityHigh]) = CapHigh
  /\ buf[PriorityHigh][CapHigh].id = <<PriorityHigh, consumed[PriorityHigh] - 1>>
  /\ <<PriorityHigh, 0>> \in handled

\* C4: when the outer select ran while a high and a low record were both in
\* their buffers, it did not dequeue the low record.
C4_HighBeforeLow ==
  (decision.took # "none" /\ decision.highAvail /\ decision.lowAvail)
    => decision.took # PriorityLow

\* C5: when the low record of the branch is the next record passed to the
\* handler and a high record was in the high buffer at the inner select, that
\* high record has been passed to the handler already.
C5_HighPreemptsLow ==
  (spc = "run" /\ precheck.took # "none" /\ precheck.highAvail
   /\ Head(runq).id = precheck.low)
    => precheck.highHead \in handled

\* C10: on every band a payload that does not parse is marked (its offset is
\* advanced), leaves the band's buffer as it was and leaves the reader at
\* the head of its loop, where it takes the next message.
C10_PoisonSkipped ==
  /\ [](\A b \in Priorities :
          lastFetch[b].kind = "poison" =>
            /\ marked[b] = consumed[b]
            /\ rmsg[b] = NoRecord
            /\ rpc[b] = "recv" \/ (cancelled /\ rpc[b] = "done")
            /\ (rpc[b] = "recv" /\ Taken < MaxMessages)
                 => ENABLED ReaderFetch(b, [ok |-> TRUE, tag |-> ""]))
  /\ [][\A b \in Priorities :
          (consumed'[b] # consumed[b] /\ lastFetch'[b].kind = "poison") =>
            /\ buf'[b] = buf[b]
            /\ marked'[b] = consumed[b] + 1
            /\ rpc'[b] = "recv"]_vars

\* On the low band a poison payload was skipped, and the record after it has
\* been taken, buffered and marked.
C10_Witness ==
  /\ skipped[PriorityLow] = 1 /\ consumed[PriorityLow] = 2
  /\ lastFetch[PriorityLow].kind = "record"
  /\ rpc[PriorityLow] = "recv" /\ marked[PriorityLow] = 2
  /\ Len(buf[PriorityLow]) = 1
  /\ buf[PriorityLow][1].id = <<PriorityLow, 1>>

\* C11: every record in a staging buffer carries the priority of the buffer's
\* band, and so does a record a reader holds for the send, whatever tag the
\* inbound payload carried.
C11_BufferPriority ==
  \A b \in Priorities :
    /\ \A i \in DOMAIN buf[b] : buf[b][i].priority = b
    /\ rpc[b] = "send" => rmsg[b].priority = b

\* The medium buffer holds the record of a payload tagged "low", and the high
\* reader has buffered the record of a payload without a tag.
C11_Witness ==
  /\ lastFetch[PriorityMedium].kind = "record" /\ inTag[PriorityMedium] = PriorityLow
  /\ rpc[PriorityMedium] = "recv" /\ Len(buf[PriorityMedium]) = 1
  /\ buf[PriorityMedium][1].id = <<PriorityMedium, consumed[PriorityMedium] - 1>>
  /\ buf[PriorityMedium][1].priority = PriorityMedium
  /\ lastFetch[PriorityHigh].kind = "record" /\ inTag[PriorityHigh] = ""
  /\ rpc[PriorityHigh] = "recv" /\ Len(buf[PriorityHigh]) = 1
  /\ buf[PriorityHigh][1].priority = PriorityHigh

\* C15: after cancellation the readers and the processor stop and Start
\* returns.  Stated for the running consumer (the three sessions are set up)
\* as what every finite run must respect: as long as Start has not returned
\* after the cancellation, some goroutine can take a step.
C15_CancelStops ==
  (cancelled /\ (\A b \in Priorities : ready[b]) /\ ~returned) => ENABLED Next

\* C16: when Start has returned, the context has been cancelled and the three
\* readers and the processor have all returned.
C16_ReturnAfterWorkers ==
  returned => /\ cancelled
              /\ spc = "done"
              /\ \A b \in Priorities : rpc[b] = "done"

\* Start has returned after the consumer handled a record.
C16_Witness == returned /\ handled # {} /\ cancelled /\ spc = "done"

\* The ids of the records waiting in a buffer, with a reader or with the
\* processor.
Staged ==
  UNION {{buf[b][i].id : i \in DOMAIN buf[b]} : b \in Priorities}
    \cup {rmsg[b].id : b \in {x \in Priorities : rpc[x] = "send"}}
    \cup {runq[i].id : i \in DOMAIN runq}
    \cup (IF held = NoRecord THEN {} ELSE {held.id})

\* C17: a handler call whose publish fails leaves the delivery topic and the
\* buffers as they were and is followed by the rest of the branch or by the
\* next select; the record is not staged again, and the processor back at
\* the select can receive the next staged record.
C17_PublishFailureSkips ==
  /\ [][(handled' # handled /\ pm'.result = "send_error") =>
          /\ pm'.n = Head(runq)
          /\ delivered' = delivered
          /\ buf' = buf /\ held' = held
          /\ runq' = Tail(runq)
          /\ spc' = IF Tail(runq) = <<>> THEN "select" ELSE "run"]_vars
  /\ []((pm.kind = "processed" /\ pm.result = "send_error") =>
          /\ pm.n.id \notin Staged
          /\ Published(pm.n.id) = {}
          /\ spc = "run" => runq # <<>>
          /\ (spc = "select" /\ \E b \in Priorities : buf[b] # <<>>)
               => ENABLED (SelectHigh \/ SelectMedium \/ SelectLow))

\* The publish of the first high record failed; the second high record has
\* been handled after it and published.
C17_Witness ==
  /\ <<PriorityHigh, 0>> \in handled /\ Published(<<PriorityHigh, 0>>) = {}
  /\ pm.kind = "processed" /\ pm.n.id = <<PriorityHigh, 1>> /\ pm.result = "sent"
  /\ Published(<<PriorityHigh, 1>>) # {}

\* C19: the record about to be passed to the handler was consumed after every
\* record of its band already passed, and before every record of its band
\* that is still staged: each band is handled in the order of its partition.
C19_BandOrder ==
  (spc = "run") =>
    LET h == Head(runq).id
    IN /\ \A id \in handled : id[1] = h[1] => id[2] < h[2]
       /\ \A id \in Staged \ {h} : id[1] = h[1] => id[2] > h[2]

\* The second low record was held back while a preempting high record was
\* handled, and is now passed after the first low record.
C19_Witness ==
  /\ spc = "run" /\ precheck.took = PriorityHigh
  /\ Head(runq).id = <<PriorityLow, 1>>
  /\ <<PriorityLow, 0>> \in handled
  /\ precheck.highHead \in handled

\* The ids of the records the processor has received and not yet passed to
\* the handler.
InBranch == {runq[i].id : i \in DOMAIN runq} \cup (IF held = NoRecord THEN {} ELSE {held.id})

\* C20: every record received from a buffer is either still in the current
\* branch or has been passed to the handler, never both and never twice, and
\* none is left when the branch ends; each handler call checks admission
\* first, resolves channels only for an admitted record, publishes only a
\* record with channels, ends in one of the terminal results, and no record
\* is published more than once.
C20_NoRevisit ==
  /\ dequeued = handled \cup InBranch
  /\ handled \cap InBranch = {}
  /\ \A i, j \in DOMAIN runq : runq[i].id = runq[j].id => i = j
  /\ held # NoRecord => runq = <<>>
  /\ spc \in {"wait", "select", "done"} => InBranch = {}
  /\ pm.kind = "processed" =>
       /\ pm.n.id \in handled
       /\ rl.kind = "check" /\ rl.n = pm.n
       /\ pm.result \in {"rate_error", "rate_limited", "prefs_error", "opted_out",
                          "no_channels", "send_error", "sent"}
       /\ pm.result = "rate_error" <=> rl.err
       /\ pm.result = "rate_limited" <=> (~rl.err /\ rl.limited)
       /\ pm.result \in {"send_error", "sent"} => pm.channels # <<>>
       /\ pm.result \in {"rate_error", "rate_limited", "prefs_error", "opted_out",
                          "no_channels"} => pm.channels = <<>>
       /\ Len(delivered) = pm.lenBefore + (IF pm.result = "sent" THEN 1 ELSE 0)
  /\ \A i \in DOMAIN delivered : delivered[i].value.notification.id \in handled
  /\ \A id \in dequeued : Cardinality(Published(id)) <= 1

\* A high record was admitted, resolved and published; the low record after
\* it was rejected by the admission check and ended there.
C20_Witness ==
  /\ spc = "select" /\ Cardinality(handled) = 2 /\ dequeued = handled
  /\ Cardinality(Published(<<PriorityHigh, 0>>)) = 1
  /\ pm.kind = "processed" /\ pm.n.id = <<PriorityLow, 0>>
  /\ pm.result = "rate_limited"

\* The ids of the records of a sequence.
IdsOf(q) == {q[i].id : i \in DOMAIN q}

\* C21: at most one record is inside the pipeline at any time, and only while
\* the processor is inside the handler call for it; every record received
\* from the buffers earlier has had its call completed, and the records still
\* waiting in the branch have not started.  While the call runs, a reader
\* that holds a record and finds room in its buffer can send it.
C21_Serialized ==
  /\ Cardinality(inflight) <= 1
  /\ inflight # {} <=> spc = "handling"
  /\ spc = "handling" =>
       /\ inflight = {Head(runq).id}
       /\ inflight \cap handled = {}
       /\ dequeued \ IdsOf(runq) \subseteq handled
       /\ IdsOf(Tail(runq)) \cap handled = {}
       /\ \A b \in Priorities :
            (rpc[b] = "send" /\ HasRoom(b)) => ENABLED ReaderSend(b)

\* A low record is inside the pipeline after the high record of the same
\* branch completed, while the reader of the high band is about to send.
C21_Witness ==
  /\ spc = "handling" /\ inflight = {Head(runq).id}
  /\ Head(runq).priority = PriorityLow
  /\ handled # {}
  /\ rpc[PriorityHigh] = "send" /\ HasRoom(PriorityHigh)

\* The consumer has not moved: no reader and no processor step was taken.
NothingStarted ==
  /\ spc = "wait" /\ ~returned
  /\ \A b \in Priorities :
       /\ rpc[b] = "init" /\ ~ready[b]
       /\ consumed[b] = 0 /\ buf[b] = <<>>
  /\ handled = {} /\ delivered = <<>>

\* C23: when the creation of the consumer group of one band fails, the
\* constructor returns an error, no group is left open (those created before
\* it are closed, the others were never created), and no reader or processor
\* step is ever taken; a consumer is returned only when all three groups are
\* open, and the consumer moves only then.
C23_FatalStartup ==
  /\ boot.result = "error" =>
       /\ \A b \in Priorities : boot.groups[b] \in {"closed", "none"}
       /\ \E b \in Priorities : boot.groups[b] = "none"
       /\ NothingStarted
       /\ ~ENABLED NextBoot
  /\ boot.result = "ok" <=> \A b \in Priorities : boot.groups[b] = "open"
  /\ boot.result # "ok" => NothingStarted

\* The creation of the low band's group failed after the two others succeeded.
C23_Witness ==
  /\ boot.result = "error"
  /\ boot.groups[PriorityHigh] = "closed" /\ boot.groups[PriorityMedium] = "closed"
  /\ boot.groups[PriorityLow] = "none"

\* C24: the inner select around a dequeued medium record receives the head of
\* the high buffer whenever that buffer is not empty, and the branch then
\* passes the high record to the handler first and the medium record right
\* after it, with no other dequeue in between; when the high buffer is empty
\* the medium record is the only record of the branch.
C24_HighPreemptsMedium ==
  /\ [][(spc = "checkMedium" /\ spc' # spc) =>
          /\ spc' = "run"
          /\ IF buf[PriorityHigh] # <<>>
             THEN /\ runq' = <<Head(buf[PriorityHigh]), held>>
                  /\ buf' = [buf EXCEPT ![PriorityHigh] = Tail(@)]
             ELSE /\ runq' = <<held>>
                  /\ buf' = buf]_vars
  /\ [][(spc = "run" /\ decision.took = PriorityMedium /\ runq' # runq) =>
          /\ pm'.kind = "processed" /\ pm'.n = Head(runq)
          /\ handled' = handled \cup {Head(runq).id}
          /\ runq' = Tail(runq)
          /\ dequeued' = dequeued
          /\ spc' = (IF runq' = <<>> THEN "select" ELSE "run")]_vars

\* The only high record was in its buffer when the outer select took the
\* medium record; it has been handled, and the medium record is next.
C24_Witness ==
  /\ spc = "run" /\ decision.took = PriorityMedium /\ decision.highAvail
  /\ consumed[PriorityHigh] = 1
  /\ Len(runq) = 1 /\ Head(runq).priority = PriorityMedium
  /\ Head(runq).id \notin handled
  /\ pm.kind = "processed" /\ pm.n.priority = PriorityHigh /\ pm.n.id \in handled

\* C25: when the inner select around a dequeued low record found the high
\* buffer empty and a medium record in the medium buffer, it received the
\* medium record: until the branch ends, either the medium and the low record
\* both wait, in this order, or the medium record is the record handled last
\* and the low record is the next one.
C25_MediumPreemptsLow ==
  (precheck.took # "none" /\ ~precheck.highAvail /\ precheck.mediumAvail)
    => /\ precheck.took = PriorityMedium
       /\ spc = "run" /\ decision.took = PriorityLow
       /\ runq[Len(runq)].id = precheck.low
       /\ runq[Len(runq)].priority = PriorityLow
       /\ precheck.low \notin handled
       /\ \/ /\ Len(runq) = 2
             /\ runq[1].priority = PriorityMedium /\ runq[1].id \notin handled
          \/ /\ Len(runq) = 1
             /\ pm.kind = "processed" /\ pm.n.priority = PriorityMedium
             /\ pm.n.id \in handled

\* The medium record received at the inner select has been handled and the
\* low record is next.
C25_Witness ==
  /\ precheck.took = PriorityMedium /\ ~precheck.highAvail /\ precheck.mediumAvail
  /\ spc = "run" /\ Len(runq) = 1 /\ Head(runq).id = precheck.low
  /\ pm.kind = "processed" /\ pm.n.priority = PriorityMedium

\* C31: while a reader holds a record for the send, blocked or not, the
\* record is in no buffer and has not been dequeued, its offset is not marked
\* and the reader takes no later message of the partition; and a step that
\* marks the offset of a record finds that record in the band's buffer or
\* already dequeued from it.
C31_MarkAfterEnqueue ==
  /\ [](\A b \in Priorities :
          /\ marked[b] <= consumed[b]
          /\ rpc[b] = "send" =>
               /\ marked[b] < consumed[b]
               /\ rmsg[b].id = <<b, consumed[b] - 1>>
               /\ rmsg[b].id \notin IdsOf(buf[b]) \cup dequeued
               /\ \A payload \in MarkPayloads : ~ENABLED MarkFetch(b, payload))
  /\ [][\A b \in Priorities :
          (marked'[b] # marked[b] /\ consumed'[b] = consumed[b]) =>
            /\ marked'[b] = consumed[b]
            /\ <<b, consumed[b] - 1>> \in IdsOf(buf[b]) \cup dequeued]_vars

\* The low reader is blocked on the full low buffer with its second record:
\* only the offset of the first is marked.
C31_Witness ==
  /\ rpc[PriorityLow] = "send" /\ ~HasRoom(PriorityLow)
  /\ consumed[PriorityLow] = 2 /\ marked[PriorityLow] = 1
  /\ rmsg[PriorityLow].id = <<PriorityLow, 1>>

\* A record is staged in the buffer of band b.
StagedIn(b) == buf[b] # <<>>

Drained ==
  /\ \A b \in Priorities : buf[b] = <<>> /\ rpc[b] # "send"
  /\ runq = <<>> /\ held = NoRecord
  /\ dequeued = handled

\* C34: without cancellation, once the three readers are ready the consumer
\* comes to a point from which the buffers stay empty for ever and every
\* record that was staged has been passed to the handler, whether the handler
\* calls returned errors or not.
C34_DrainLiveness ==
  /\ [](dequeued \subseteq
          IdsOf(runq) \cup (IF held = NoRecord THEN {} ELSE {held.id}) \cup handled)
  /\ (<>(\A b \in Priorities : ready[b])) => <>[]Drained

\* All messages were taken, one record of the low and one of the high band,
\* both were handled, the second after a publish failure, and nothing is left.
C34_Witness ==
  /\ Drained /\ Taken = MaxTagged
  /\ handled = {<<PriorityLow, 0>>, <<PriorityHigh, 0>>}
  /\ pm.kind = "processed" /\ pm.result = "send_error"
  /\ \A b \in Priorities : ready[b]

\* C35: the processor goroutine is started only after the high, medium and low
\* readers have each completed their first session setup: as long as one of
\* them has not, no record of any band has been received from a buffer or
\* passed to the pipeline (the readers may fill their buffers meanwhile).
C35_StartAfterReady ==
  (\/ spc # "wait"
   \/ dequeued # {} \/ handled # {}
   \/ runq # <<>> \/ held # NoRecord
   \/ pm.kind = "processed")
    => \A b \in Priorities : ready[b]

\* The low reader has filled its buffer and is blocked in the next send while
\* the high reader's first session is not set up and Start still waits.
C35_Witness ==
  /\ spc = "wait" /\ ~ready[PriorityHigh] /\ ready[PriorityLow]
  /\ Len(buf[PriorityLow]) = CapLow /\ rpc[PriorityLow] = "send"
  /\ dequeued = {} /\ handled = {}

\* C36: Start returns after cancellation also when the cancellation is
\* signalled before the three readers have become ready.  Stated as what
\* every finite run must respect: while Start has not returned after such a
\* cancellation and no reader is blocked in a send, some goroutine can take
\* a step.
C36_CancelBeforeReady ==
  (/\ cancelled /\ ~returned
   /\ \E b \in Priorities : ~ready[b]
   /\ \A b \in Priorities : rpc[b] # "send")
    => ENABLED Next

----------------------------------------------------------------------------
(* The prioritizer service on its own: inbound messages of the raw topic,  *)
(* handled one at a time by ConsumeClaim, and the clock Validate reads.    *)

\* The inbound events drawn: one of each band, one whose type the table
\* lacks, one created at second 1, and one for each missing field.
PrioritizerEvents ==
  {[ID |-> "n1", UserID |-> "u1", EventType |-> e, CreatedAt |-> 0] :
     e \in {"security_alert", "comment", "like", "signup", ""}}
  \cup {[ID |-> "n1", UserID |-> "u1", EventType |-> "payment_failed", CreatedAt |-> 1],
        [ID |-> "", UserID |-> "u1", EventType |-> "like", CreatedAt |-> 0],
        [ID |-> "n1", UserID |-> "", EventType |-> "like", CreatedAt |-> 0]}

\* The inbound payloads: one that is not JSON, and the events.
PrioritizerPayloads ==
  {[ok |-> FALSE]} \cup {[ok |-> TRUE, event |-> e] : e \in PrioritizerEvents}

\* One iteration of ConsumeClaim's loop: Unmarshal, the handler, MarkMessage.
PrioritizerConsume(payload, fail) ==
  /\ prio.consumed < MaxInbound
  /\ LET res == IF ~payload.ok
                THEN [err |-> "unmarshal", broker |-> prio.broker]
                ELSE PrioritizerProcessMessage(payload.event, now, fail, prio.broker)
     IN prio' = [consumed |-> prio.consumed + 1,
                 marked |-> prio.consumed + 1,
                 broker |-> res.broker,
                 last |-> [kind |-> "consumed", payload |-> payload, fail |-> fail,
                           err |-> res.err, at |-> now]]
  /\ UNCHANGED <<pipeVars, consumed, marked, lastFetch, skipped, buf, rpc, rmsg, ready,
                 cancelled, spc, held, runq, decision, precheck, handled, dequeued, inTag,
                 inflight, returned, boot>>

\* time.Now().Unix() of the prioritizer service moves on by one second.
PrioritizerTick ==
  /\ now < PrioMaxTime
  /\ now' = now + 1
  /\ UNCHANGED <<redis, db, delivered, rl, admitted, storeFailed, resolved, pm, nextId, chk,
                 schedVars>>

NextPrioritize ==
  \/ PrioritizerTick
  \/ \E payload \in PrioritizerPayloads, fail \in {"none", "send"} :
       PrioritizerConsume(payload, fail)

SpecPrioritize == InitSched /\ [][NextPrioritize]_vars

\* C39: every notification the prioritizer service publishes is in the topic
\* of the priority it was assigned and carries that priority tag, the priority
\* being that of the classification table and low for an event type the table
\* lacks; a payload that fails validation is published to no topic; and the
\* inbound offset is advanced for every message, published or not.
C39_PrioritizerDispatch ==
  /\ [](\A p \in Priorities : \A i \in DOMAIN prio.broker[topics[p]] :
          LET m == prio.broker[topics[p]][i]
          IN /\ m.value.priority = p
             /\ p = (IF m.value.event_type \in DOMAIN eventPriorities
                     THEN eventPriorities[m.value.event_type] ELSE PriorityLow)
             /\ m.value.event_type \notin DOMAIN eventPriorities => p = PriorityLow
             /\ m.value.id # "" /\ m.value.user_id # "" /\ m.value.event_type # "")
  /\ [][prio' # prio =>
          LET payload == prio'.last.payload
              rejected ==
                \/ ~payload.ok
                \/ payload.event.ID = "" \/ payload.event.UserID = ""
                \/ payload.event.EventType = "" \/ payload.event.CreatedAt > now
          IN /\ prio'.marked = prio.marked + 1 /\ prio'.marked = prio'.consumed
             /\ rejected => prio'.broker = prio.broker
             /\ (~rejected /\ prio'.last.fail = "none") =>
                  LET e == payload.event
                      tp == topics[IF e.EventType \in DOMAIN eventPriorities
                                   THEN eventPriorities[e.EventType] ELSE PriorityLow]
                  IN /\ Len(prio'.broker[tp]) = Len(prio.broker[tp]) + 1
                     /\ \A other \in DOMAIN prio.broker \ {tp} :
                          prio'.broker[other] = prio.broker[other]]_vars

\* An event of a type the table lacks was published to the low topic, tagged
\* low; the next message, created in the future, was rejected, published
\* nowhere, and its offset marked.
C39_Witness ==
  /\ prio.marked = 2 /\ prio.last.kind = "consumed"
  /\ prio.last.err = "validation failed"
  /\ prio.last.payload.event.CreatedAt > prio.last.at
  /\ Len(prio.broker[topics[PriorityLow]]) = 1
  /\ prio.broker[topics[PriorityLow]][1].value.event_type = "signup"
  /\ prio.broker[topics[PriorityLow]][1].value.priority = PriorityLow
  /\ prio.broker[topics[PriorityHigh]] = <<>> /\ prio.broker[topics[PriorityMedium]] = <<>>
====
